---- MODULE Spec2Model ----
(***************************************************************************)
(* Holdings import of SelFi: the four upload handlers of                   *)
(* backend/app/api/v1/endpoints/uploads.py (Zerodha CSV, generic CSV,      *)
(* Excel, PDF) reconciling parsed holdings against the holdings table,     *)
(* followed by the price enrichment pass; and the parsers of               *)
(* backend/app/services/csv_parser.py that feed them.                      *)
(***************************************************************************)
EXTENDS Integers, Sequences, FiniteSets, TLC

VARIABLES
    committed,            \* holdings table as committed in the database
    rows,                 \* holdings as seen by the handler's session (flushed, uncommitted)
    pending,              \* objects added to the session and not yet flushed
    autoflush,            \* session option of get_db
    path,                 \* upload handler serving the call
    platform_account_id,  \* form field of the call
    phase,                \* position of the call
    holdings_data,        \* list returned by the parser
    idx,                  \* position of the reconciliation loop in holdings_data
    imported_count,
    updated_count,
    skipped_count,
    import_status,        \* import_record.import_status ("none": no record)
    error_message,        \* import_record.error_message
    new_holdings,         \* ids selected by the enrichment query
    eidx,                 \* position of the enrichment loop in new_holdings
    lookups,              \* price lookups issued by the enrichment pass
    lookup_failed,        \* (id, outcome) of the lookups that returned nothing or raised
    pre_store,            \* committed holdings when the call began
    run,                  \* 1: first call, 2: the same file uploaded again
    raised,               \* (phase, message) of the exception that ended the call, if any
    parse_in,             \* input handed to a parser
    parse_out,            \* what the parser returned for parse_in
    calls                 \* the two upload calls that run side by side, each with its session

\* State of an upload call and of the database.
ivars == <<committed, rows, pending, autoflush, path, platform_account_id, phase,
           holdings_data, idx, imported_count, updated_count, skipped_count,
           import_status, error_message, new_holdings, eidx, lookups,
           lookup_failed, pre_store, run, raised>>

\* State of a parser run on its own.
pvars == <<parse_in, parse_out>>

vars == <<ivars, pvars, calls>>

\* Longest list a parser returns.
MaxBatch == 2

NoneVal == "none"

Paths == {"zerodha", "generic", "excel", "pdf"}

Accounts == {1, 2}

\* str(e) of the exceptions the handler's except clause can catch; outside the
\* loop bodies only the database calls raise.
ExcMsgs == {"KeyError", "OperationalError"}

DbExcMsgs == {"OperationalError"}

\* A row of the holdings table.
Holding(a, sym, at, ex, q, avg, cp, cv, pnl, pct, isin, sc) ==
    [platform_account_id |-> a, symbol |-> sym, asset_type |-> at, exchange |-> ex,
     quantity |-> q, average_price |-> avg, current_price |-> cp,
     current_value |-> cv, pnl |-> pnl, pnl_percentage |-> pct,
     isin |-> isin, scheme_code |-> sc]

\* asset_type_map.get(asset_type_str, AssetType.STOCK) of each handler;
\* the Excel handler's map has no REIT entry.
AssetTypeMap(p, s) ==
    CASE s = "stock" -> "STOCK"
      [] s = "etf" -> "ETF"
      [] s = "mutual_fund" -> "MUTUAL_FUND"
      [] s = "sgb" -> "SGB"
      [] s = "reit" -> IF p = "excel" THEN "STOCK" ELSE "REIT"
      [] OTHER -> "STOCK"

\* The holding dict the CSV and Excel parsers emit for one row.
ParsedHolding(sym, ex, at, q, avg, cp, isin, sc) ==
    LET cv == IF cp > 0 THEN q * cp ELSE q * avg
        pnl == IF avg > 0 THEN cv - q * avg ELSE 0
    IN [symbol |-> sym, exchange |-> ex, asset_type |-> at, quantity |-> q,
        average_price |-> avg, current_price |-> cp, current_value |-> cv,
        pnl |-> pnl,
        pnl_percentage |-> IF avg > 0 /\ q > 0 THEN (pnl * 100) \div (q * avg) ELSE 0,
        isin |-> isin, scheme_code |-> sc]

\* The holding dict the PDF parser emits: no P&L, value only from units and NAV.
PdfHolding(sym, ex, at, q, avg, cp, isin) ==
    [symbol |-> sym, exchange |-> ex, asset_type |-> at, quantity |-> q,
     average_price |-> avg, current_price |-> cp,
     current_value |-> IF q > 0 /\ cp > 0 THEN q * cp ELSE 0,
     pnl |-> 0, pnl_percentage |-> 0, isin |-> isin, scheme_code |-> NoneVal]

\* Holdings the parser of handler p can return (all for one symbol, so that
\* entries of a list can share the reconciliation key).  Only the current
\* Zerodha schema and the demat PDF carry an ISIN, only the mutual-fund sheet
\* a scheme code; a demat PDF has no prices, a generic PDF no current price.
ParserOutputs(p) ==
    CASE p = "zerodha" ->
            {ParsedHolding("A", "NSE", "stock", 2, 1, 0, "IS1", NoneVal),
             ParsedHolding("A", "NSE", "stock", 1, 1, 1, NoneVal, NoneVal),
             ParsedHolding("A", "BSE", "etf", 1, 1, 1, NoneVal, NoneVal),
             ParsedHolding("A", "BSE", "etf", 2, 1, 0, NoneVal, NoneVal)}
      [] p = "generic" ->
            {ParsedHolding("A", "NSE", "stock", 1, 1, 1, NoneVal, NoneVal),
             ParsedHolding("A", "NSE", "stock", 2, 1, 0, NoneVal, NoneVal),
             ParsedHolding("A", "NSE", "sgb", 1, 1, 1, NoneVal, NoneVal),
             ParsedHolding("A", "NSE", "sgb", 2, 1, 0, NoneVal, NoneVal)}
      [] p = "excel" ->
            {ParsedHolding("A", "NSE", "stock", 1, 1, 1, NoneVal, NoneVal),
             ParsedHolding("A", "NSE", "stock", 2, 1, 0, NoneVal, NoneVal),
             ParsedHolding("A", "MF", "mutual_fund", 2, 1, 0, NoneVal, "SC1"),
             ParsedHolding("A", "MF", "mutual_fund", 1, 1, 1, NoneVal, NoneVal)}
      [] p = "pdf" ->
            {PdfHolding("A", "MF", "mutual_fund", 2, 2, 2, NoneVal),
             PdfHolding("A", "NSE", "stock", 2, 0, 0, "IS1"),
             PdfHolding("A", "NSE", "stock", 1, 0, 0, "IS1"),
             PdfHolding("A", "NSE", "stock", 1, 1, 0, NoneVal)}
      [] OTHER -> {}

Batches(p) == UNION {[1..n -> ParserOutputs(p)] : n \in 0..MaxBatch}

\* Holdings tables the call can find: none, or one holding other accounts'
\* rows, a priced row with an ISIN and an unpriced fund with a scheme code.
InitStores ==
    {<<>>,
     <<Holding(1, "A", "STOCK", "NSE", 1, 1, 1, 1, 0, 0, "IS0", NoneVal),
       Holding(2, "A", "MUTUAL_FUND", "MF", 2, 1, 0, 2, 0, 0, NoneVal, NoneVal),
       Holding(1, "A", "MUTUAL_FUND", "MF", 1, 1, 0, 1, 0, 0, NoneVal, "SC0")>>}

\* No exception has ended the call.
NotRaised == <<>>

\* No upload call is in progress.
IdleCall ==
    /\ rows = committed
    /\ pending = <<>>
    /\ path = NoneVal
    /\ platform_account_id = 0
    /\ phase = "IDLE"
    /\ holdings_data = <<>>
    /\ idx = 1
    /\ imported_count = 0
    /\ updated_count = 0
    /\ skipped_count = 0
    /\ import_status = NoneVal
    /\ error_message = NoneVal
    /\ new_holdings = <<>>
    /\ eidx = 1
    /\ lookups = {}
    /\ lookup_failed = {}
    /\ pre_store = committed
    /\ run = 1
    /\ raised = NotRaised

\* No parser has been handed anything.
NoParse == [kind |-> "none"]

\* No two calls are running side by side.
NoCalls == <<>>

Init ==
    /\ committed \in InitStores
    /\ autoflush \in BOOLEAN
    /\ IdleCall
    /\ parse_in = NoParse
    /\ parse_out = NoParse
    /\ calls = NoCalls

\* The handler is entered: the account is found and the file name accepted.
Upload(p, a) ==
    /\ phase = "IDLE"
    /\ path' = p
    /\ platform_account_id' = a
    /\ phase' = "PARSING"
    /\ UNCHANGED <<committed, rows, pending, autoflush, holdings_data, idx,
                   imported_count, updated_count, skipped_count, import_status,
                   error_message, new_holdings, eidx, lookups, lookup_failed,
                   pre_store, run, raised>>
    /\ UNCHANGED <<pvars, calls>>

\* The parser returns its list.
ParseOk(H) ==
    /\ phase = "PARSING"
    /\ holdings_data' = H
    /\ phase' = "PARSED"
    /\ UNCHANGED <<committed, rows, pending, autoflush, path, platform_account_id,
                   idx, imported_count, updated_count, skipped_count, import_status,
                   error_message, new_holdings, eidx, lookups, lookup_failed,
                   pre_store, run, raised>>
    /\ UNCHANGED <<pvars, calls>>

\* The parser raises HTTPException: the handler ends before any record is made.
ParseError ==
    /\ phase = "PARSING"
    /\ phase' = "FAILED"
    /\ raised' = <<"PARSING", "HTTPException">>
    /\ UNCHANGED <<committed, rows, pending, autoflush, path, platform_account_id,
                   holdings_data, idx, imported_count, updated_count, skipped_count,
                   import_status, error_message, new_holdings, eidx, lookups,
                   lookup_failed, pre_store, run>>
    /\ UNCHANGED <<pvars, calls>>

\* ImportHistory(import_status="processing") is added and committed.
CreateImportRecord ==
    /\ phase = "PARSED"
    /\ import_status' = "processing"
    /\ error_message' = NoneVal
    /\ imported_count' = 0
    /\ updated_count' = 0
    /\ skipped_count' = 0
    /\ idx' = 1
    /\ phase' = "PERSISTING"
    /\ UNCHANGED <<committed, rows, pending, autoflush, path, platform_account_id,
                   holdings_data, new_holdings, eidx, lookups, lookup_failed,
                   pre_store, run, raised>>
    /\ UNCHANGED <<pvars, calls>>

\* Session.query of the handler: with autoflush the pending objects are
\* written to the transaction before the SELECT runs.
Flushed(rs, pd) == IF autoflush THEN rs \o pd ELSE rs

Unflushed(pd) == IF autoflush THEN <<>> ELSE pd

\* The filter sees committed rows only, not the rows the call has added.
Matching_CommittedOnly(view, a, sym, at) ==
    {i \in DOMAIN view : /\ i <= Len(committed)
                         /\ view[i].platform_account_id = a
                         /\ view[i].symbol = sym
                         /\ view[i].asset_type = at}

\* filter(platform_account_id ==, symbol ==, asset_type ==)
Matching(view, a, sym, at) ==
    {i \in DOMAIN view : /\ view[i].platform_account_id = a
                         /\ view[i].symbol = sym
                         /\ view[i].asset_type = at}

\* "Check if data has changed"; the Zerodha handler has no such test.
NoChanges(p, e, h) ==
    /\ p # "zerodha"
    /\ e.quantity = h.quantity
    /\ e.average_price = h.average_price

\* The new row is built without the parsed ISIN.
NewHolding_NoIsin(p, a, h) ==
    Holding(a, h.symbol, AssetTypeMap(p, h.asset_type), h.exchange, h.quantity,
            h.average_price, h.current_price, h.current_value, h.pnl,
            h.pnl_percentage, NoneVal,
            IF p = "excel" THEN h.scheme_code ELSE NoneVal)

\* models.Holding(...) of the else branch.
NewHolding(p, a, h) ==
    Holding(a, h.symbol, AssetTypeMap(p, h.asset_type), h.exchange, h.quantity,
            h.average_price, h.current_price, h.current_value, h.pnl,
            h.pnl_percentage, h.isin,
            IF p = "excel" THEN h.scheme_code ELSE NoneVal)

\* The update forgets the ISIN and scheme code of the parsed row.
UpdateHolding_NoIsin(p, e, h) ==
    [e EXCEPT !.quantity = h.quantity,
              !.average_price = h.average_price,
              !.current_price = h.current_price,
              !.current_value = h.current_value,
              !.pnl = h.pnl,
              !.pnl_percentage = h.pnl_percentage]

\* "Update existing holding" of each handler.
UpdateHolding(p, e, h) ==
    [e EXCEPT !.quantity = h.quantity,
              !.average_price = h.average_price,
              !.current_price = h.current_price,
              !.current_value = h.current_value,
              !.pnl = h.pnl,
              !.pnl_percentage = h.pnl_percentage,
              !.isin = IF p \in {"zerodha", "pdf"} /\ h.isin # NoneVal THEN h.isin ELSE @,
              !.scheme_code = IF p = "excel" /\ h.scheme_code # NoneVal
                              THEN h.scheme_code ELSE @]

InLoop == phase = "PERSISTING" /\ idx <= Len(holdings_data)

\* Loop body, no row found: db.add(new_holding).
InsertHolding ==
    /\ InLoop
    /\ LET h == holdings_data[idx]
           view == Flushed(rows, pending)
       IN /\ Matching(view, platform_account_id, h.symbol,
                      AssetTypeMap(path, h.asset_type)) = {}
          /\ rows' = view
          /\ pending' = Unflushed(pending) \o <<NewHolding(path, platform_account_id, h)>>
    /\ imported_count' = imported_count + 1
    /\ idx' = idx + 1
    /\ UNCHANGED <<committed, autoflush, path, platform_account_id, phase,
                   holdings_data, updated_count, skipped_count, import_status,
                   error_message, new_holdings, eidx, lookups, lookup_failed,
                   pre_store, run, raised>>
    /\ UNCHANGED <<pvars, calls>>

\* Loop body, a row found (first() of an unordered query) and it differs.
UpdateExisting ==
    /\ InLoop
    /\ LET h == holdings_data[idx]
           view == Flushed(rows, pending)
       IN \E i \in Matching(view, platform_account_id, h.symbol,
                            AssetTypeMap(path, h.asset_type)) :
            /\ ~NoChanges(path, view[i], h)
            /\ rows' = [view EXCEPT ![i] = UpdateHolding(path, view[i], h)]
            /\ pending' = Unflushed(pending)
    /\ updated_count' = updated_count + 1
    /\ imported_count' = IF path = "zerodha" THEN imported_count + 1 ELSE imported_count
    /\ idx' = idx + 1
    /\ UNCHANGED <<committed, autoflush, path, platform_account_id, phase,
                   holdings_data, skipped_count, import_status, error_message,
                   new_holdings, eidx, lookups, lookup_failed, pre_store, run, raised>>
    /\ UNCHANGED <<pvars, calls>>

\* Loop body, a row found with the same quantity and average_price.
SkipUnchanged ==
    /\ InLoop
    /\ LET h == holdings_data[idx]
           view == Flushed(rows, pending)
       IN \E i \in Matching(view, platform_account_id, h.symbol,
                            AssetTypeMap(path, h.asset_type)) :
            /\ NoChanges(path, view[i], h)
            /\ rows' = view
            /\ pending' = Unflushed(pending)
    /\ skipped_count' = skipped_count + 1
    /\ idx' = idx + 1
    /\ UNCHANGED <<committed, autoflush, path, platform_account_id, phase,
                   holdings_data, imported_count, updated_count, import_status,
                   error_message, new_holdings, eidx, lookups, lookup_failed,
                   pre_store, run, raised>>
    /\ UNCHANGED <<pvars, calls>>

\* The rollback is left out: the session keeps the batch's writes.
Rollback_Keep(db, rs, pd) == rs \o pd

\* db.rollback()
Rollback(db, rs, pd) == db

\* db.commit(): flush, then make the transaction durable.
Commit(rs, pd) == rs \o pd

\* The except clause without the assignment of the status.
HandlerExcept_KeepStatus(msg) ==
    /\ committed' = Commit(Rollback(committed, rows, pending), <<>>)
    /\ rows' = committed'
    /\ pending' = <<>>
    /\ import_status' = import_status
    /\ error_message' = msg
    /\ raised' = <<phase, msg>>
    /\ phase' = "FAILED"

\* except Exception of the handler: rollback, mark the record failed, commit.
HandlerExcept(msg) ==
    /\ committed' = Commit(Rollback(committed, rows, pending), <<>>)
    /\ rows' = committed'
    /\ pending' = <<>>
    /\ import_status' = "failed"
    /\ error_message' = msg
    /\ raised' = <<phase, msg>>
    /\ phase' = "FAILED"

\* An exception raised inside the reconciliation loop or by its commit.
PersistException(msg) ==
    /\ phase = "PERSISTING"
    /\ HandlerExcept(msg)
    /\ UNCHANGED <<autoflush, path, platform_account_id, holdings_data, idx,
                   imported_count, updated_count, skipped_count, new_holdings,
                   eidx, lookups, lookup_failed, pre_store, run>>
    /\ UNCHANGED <<pvars, calls>>

RECURSIVE ZeroPricedFrom(_, _, _)
ZeroPricedFrom(view, a, i) ==
    IF i > Len(view) THEN <<>>
    ELSE (IF view[i].platform_account_id = a /\ view[i].current_price = 0
          THEN <<i>> ELSE <<>>) \o ZeroPricedFrom(view, a, i + 1)

\* query(Holding).filter(platform_account_id ==, current_price == 0).all()
ZeroPriced(view, a) == ZeroPricedFrom(view, a, 1)

\* The commit and the enrichment query run before the loop has ended.
CommitBatch_Early ==
    /\ phase = "PERSISTING"
    /\ committed' = Commit(rows, pending)
    /\ rows' = committed'
    /\ pending' = <<>>
    /\ new_holdings' = ZeroPriced(committed', platform_account_id)
    /\ eidx' = 1
    /\ lookups' = {}
    /\ lookup_failed' = {}
    /\ phase' = "PRICE_ENRICHING"
    /\ UNCHANGED <<autoflush, path, platform_account_id, holdings_data, idx,
                   imported_count, updated_count, skipped_count, import_status,
                   error_message, pre_store, run, raised>>
    /\ UNCHANGED <<pvars, calls>>

\* db.commit() after the loop, then the enrichment query.
CommitBatch ==
    /\ phase = "PERSISTING"
    /\ idx > Len(holdings_data)
    /\ committed' = Commit(rows, pending)
    /\ rows' = committed'
    /\ pending' = <<>>
    /\ new_holdings' = ZeroPriced(committed', platform_account_id)
    /\ eidx' = 1
    /\ lookups' = {}
    /\ lookup_failed' = {}
    /\ phase' = "PRICE_ENRICHING"
    /\ UNCHANGED <<autoflush, path, platform_account_id, holdings_data, idx,
                   imported_count, updated_count, skipped_count, import_status,
                   error_message, pre_store, run, raised>>
    /\ UNCHANGED <<pvars, calls>>

\* Prices the lookup services return.
LookupPrices == {2}

\* Scheme code of the first hit of MutualFundService.search_mutual_fund.
FoundSchemeCode == "SC9"

\* Which lookup the enrichment loop of handler p issues for holding h.
LookupVia(p, h) ==
    CASE h.asset_type \in {"STOCK", "ETF"} -> "stock"
      [] h.asset_type = "MUTUAL_FUND" /\ p \in {"zerodha", "excel"} /\ h.scheme_code # NoneVal
            -> "scheme_code"
      [] h.asset_type = "MUTUAL_FUND" /\ p = "pdf" -> "search"
      [] OTHER -> NoneVal

\* The assignments after a successful lookup, in order; the division raises
\* ZeroDivisionError when quantity * average_price is 0 and the rest is not run.
Enriched(p, h, price) ==
    LET invested == h.quantity * h.average_price
        value == h.quantity * price
    IN [h EXCEPT !.current_price = price,
                 !.current_value = value,
                 !.pnl = value - invested,
                 !.pnl_percentage = IF invested = 0 THEN @
                                    ELSE ((value - invested) * 100) \div invested,
                 !.scheme_code = IF invested # 0 /\ LookupVia(p, h) = "search"
                                 THEN FoundSchemeCode ELSE @]

InPass == phase = "PRICE_ENRICHING" /\ eidx <= Len(new_holdings)

\* Loop body for a holding whose asset type has no branch: nothing is fetched.
EnrichNoLookup ==
    /\ InPass
    /\ LookupVia(path, rows[new_holdings[eidx]]) = NoneVal
    /\ eidx' = eidx + 1
    /\ UNCHANGED <<committed, rows, pending, autoflush, path, platform_account_id,
                   phase, holdings_data, idx, imported_count, updated_count,
                   skipped_count, import_status, error_message, new_holdings,
                   lookups, lookup_failed, pre_store, run, raised>>
    /\ UNCHANGED <<pvars, calls>>

\* Without the inner try a raising lookup reaches the handler's except.
EnrichLookupFailed_Abort(out) ==
    /\ InPass
    /\ LET id == new_holdings[eidx]
           via == LookupVia(path, rows[id])
       IN /\ via # NoneVal
          /\ lookups' = lookups \cup {<<id, via>>}
          /\ lookup_failed' = lookup_failed \cup {<<id, out>>}
    /\ IF out = "raise"
       THEN /\ HandlerExcept("lookup")
            /\ eidx' = eidx
       ELSE /\ eidx' = eidx + 1
            /\ UNCHANGED <<committed, rows, pending, phase, import_status,
                           error_message, raised>>
    /\ UNCHANGED <<autoflush, path, platform_account_id, holdings_data, idx,
                   imported_count, updated_count, skipped_count, new_holdings,
                   pre_store, run>>
    /\ UNCHANGED <<pvars, calls>>

\* Loop body, the lookup returns nothing ("none") or raises ("raise"):
\* the inner except logs it and the loop goes on.
EnrichLookupFailed(out) ==
    /\ InPass
    /\ LET id == new_holdings[eidx]
           via == LookupVia(path, rows[id])
       IN /\ via # NoneVal
          /\ lookups' = lookups \cup {<<id, via>>}
          /\ lookup_failed' = lookup_failed \cup {<<id, out>>}
    /\ eidx' = eidx + 1
    /\ UNCHANGED <<committed, rows, pending, autoflush, path, platform_account_id,
                   phase, holdings_data, idx, imported_count, updated_count,
                   skipped_count, import_status, error_message, new_holdings,
                   pre_store, run, raised>>
    /\ UNCHANGED <<pvars, calls>>

\* Loop body, the lookup returns a price.
EnrichLookupOk(price) ==
    /\ InPass
    /\ LET id == new_holdings[eidx]
           via == LookupVia(path, rows[id])
       IN /\ via # NoneVal
          /\ lookups' = lookups \cup {<<id, via>>}
          /\ rows' = [rows EXCEPT ![id] = Enriched(path, rows[id], price)]
    /\ eidx' = eidx + 1
    /\ UNCHANGED <<committed, pending, autoflush, path, platform_account_id,
                   phase, holdings_data, idx, imported_count, updated_count,
                   skipped_count, import_status, error_message, new_holdings,
                   lookup_failed, pre_store, run, raised>>
    /\ UNCHANGED <<pvars, calls>>

\* An exception outside the inner try (the query, the commit of the pass).
EnrichException(msg) ==
    /\ phase = "PRICE_ENRICHING"
    /\ HandlerExcept(msg)
    /\ UNCHANGED <<autoflush, path, platform_account_id, holdings_data, idx,
                   imported_count, updated_count, skipped_count, new_holdings,
                   eidx, lookups, lookup_failed, pre_store, run>>
    /\ UNCHANGED <<pvars, calls>>

\* db.commit() of the pass, import_status = "success", db.commit(), return.
FinishImport ==
    /\ phase = "PRICE_ENRICHING"
    /\ eidx > Len(new_holdings)
    /\ committed' = Commit(rows, pending)
    /\ rows' = committed'
    /\ pending' = <<>>
    /\ import_status' = "success"
    /\ phase' = "SUCCESS"
    /\ UNCHANGED <<autoflush, path, platform_account_id, holdings_data, idx,
                   imported_count, updated_count, skipped_count, error_message,
                   new_holdings, eidx, lookups, lookup_failed, pre_store, run, raised>>
    /\ UNCHANGED <<pvars, calls>>

\* The same file is uploaded again to the same handler and account: the
\* parser returns the same list.
UploadAgain ==
    /\ phase = "SUCCESS"
    /\ run = 1
    /\ run' = 2
    /\ pre_store' = committed
    /\ phase' = "PARSED"
    /\ UNCHANGED <<committed, rows, pending, autoflush, path, platform_account_id,
                   holdings_data, idx, imported_count, updated_count, skipped_count,
                   import_status, error_message, new_holdings, eidx, lookups,
                   lookup_failed, raised>>
    /\ UNCHANGED <<pvars, calls>>

Next ==
    \/ \E p \in Paths, a \in Accounts : Upload(p, a)
    \/ \E H \in Batches(path) : ParseOk(H)
    \/ ParseError
    \/ CreateImportRecord
    \/ InsertHolding
    \/ UpdateExisting
    \/ SkipUnchanged
    \/ \E msg \in ExcMsgs : PersistException(msg)
    \/ CommitBatch
    \/ EnrichNoLookup
    \/ \E out \in {"none", "raise"} : EnrichLookupFailed(out)
    \/ \E price \in LookupPrices : EnrichLookupOk(price)
    \/ \E msg \in DbExcMsgs : EnrichException(msg)
    \/ FinishImport
    \/ UploadAgain

Spec == Init /\ [][Next]_vars

(***************************************************************************)
(* Properties of the upload handlers.                                      *)
(***************************************************************************)

\* Every object of the session, flushed or not.
Session == rows \o pending

\* The enum member a parsed asset_type string names.
EnumOf(s) ==
    CASE s = "stock" -> "STOCK"
      [] s = "etf" -> "ETF"
      [] s = "mutual_fund" -> "MUTUAL_FUND"
      [] s = "sgb" -> "SGB"
      [] s = "reit" -> "REIT"

\* The rows the query of the current loop step can return.
StoredMatches ==
    Matching(Flushed(rows, pending), platform_account_id,
             holdings_data[idx].symbol, EnumOf(holdings_data[idx].asset_type))

SameQuantityAndPrice(e, h) ==
    e.quantity = h.quantity /\ e.average_price = h.average_price

\* One holding of the list is reconciled by this step.
LoopStep == InLoop /\ idx' = idx + 1

\* C1: uploading the same list again right after a successful import counts
\* every holding as skipped and none as imported or updated.
C1_Idempotence ==
    (run = 2 /\ phase \in {"PRICE_ENRICHING", "SUCCESS"}) =>
        /\ skipped_count = Len(holdings_data)
        /\ imported_count = 0
        /\ updated_count = 0

\* C2: an exception raised while the batch is written leaves the committed
\* holdings as they were before the call and the import record failed with
\* the exception's message.
C2_AtomicPersistence ==
    (phase = "FAILED" /\ raised # NotRaised /\ raised[1] = "PERSISTING") =>
        /\ committed = pre_store
        /\ Session = pre_store
        /\ import_status = "failed"
        /\ error_message = raised[2]

\* C2 witness: the exception came after a holding was inserted or updated.
C2_Witness ==
    /\ phase = "FAILED"
    /\ raised # NotRaised
    /\ raised[1] = "PERSISTING"
    /\ imported_count + updated_count > 0

\* C3: a parsed holding that matches a stored one with equal quantity and
\* average_price increments skipped_count only and changes no stored field.
C3_SkipRule ==
    [][(/\ LoopStep
        /\ StoredMatches # {}
        /\ \A i \in StoredMatches : SameQuantityAndPrice(Session[i], holdings_data[idx]))
       => /\ skipped_count' = skipped_count + 1
          /\ updated_count' = updated_count
          /\ imported_count' = imported_count
          /\ rows' \o pending' = Session]_vars

\* C4: a parsed holding without a stored match adds exactly one row carrying
\* the parsed values and increments imported_count by one.
C4_InsertRule ==
    [][(LoopStep /\ StoredMatches = {})
       => LET h == holdings_data[idx]
              after == rows' \o pending'
              new == after[Len(after)]
          IN /\ Len(after) = Len(Session) + 1
             /\ SubSeq(after, 1, Len(Session)) = Session
             /\ new.platform_account_id = platform_account_id
             /\ new.symbol = h.symbol
             /\ new.asset_type = EnumOf(h.asset_type)
             /\ new.exchange = h.exchange
             /\ new.quantity = h.quantity
             /\ new.average_price = h.average_price
             /\ new.current_price = h.current_price
             /\ new.current_value = h.current_value
             /\ new.pnl = h.pnl
             /\ new.pnl_percentage = h.pnl_percentage
             /\ new.isin = h.isin
             /\ new.scheme_code = h.scheme_code
             /\ imported_count' = imported_count + 1]_vars

\* C4 witness: a row with a parsed ISIN has been inserted and committed.
C4_Witness ==
    /\ phase = "SUCCESS"
    /\ imported_count >= 1
    /\ Len(committed) > Len(pre_store)
    /\ committed[Len(committed)].isin = "IS1"

\* C5: a parsed holding that matches a stored one and differs in quantity or
\* average_price overwrites the six value fields, overwrites isin and
\* scheme_code only with non-empty parsed values, keeps the key fields and
\* increments updated_count by one.
C5_UpdateRule ==
    [][(/\ LoopStep
        /\ StoredMatches # {}
        /\ \A i \in StoredMatches : ~SameQuantityAndPrice(Session[i], holdings_data[idx]))
       => LET h == holdings_data[idx]
              after == rows' \o pending'
          IN /\ updated_count' = updated_count + 1
             /\ Len(after) = Len(Session)
             /\ \E i \in StoredMatches :
                  /\ after[i] = [Session[i] EXCEPT
                                   !.quantity = h.quantity,
                                   !.average_price = h.average_price,
                                   !.current_price = h.current_price,
                                   !.current_value = h.current_value,
                                   !.pnl = h.pnl,
                                   !.pnl_percentage = h.pnl_percentage,
                                   !.isin = IF h.isin # NoneVal THEN h.isin ELSE @,
                                   !.scheme_code = IF h.scheme_code # NoneVal
                                                   THEN h.scheme_code ELSE @]
                  /\ \A j \in DOMAIN Session : j # i => after[j] = Session[j]]_vars

\* C5 witness: an update has replaced a stored ISIN by the parsed one.
C5_Witness ==
    /\ updated_count >= 1
    /\ \E i \in DOMAIN pre_store :
         /\ i \in DOMAIN rows
         /\ pre_store[i].isin = "IS0"
         /\ rows[i].isin = "IS1"

\* Position of id in the list the enrichment query returned.
PositionOf(id) == CHOOSE k \in DOMAIN new_holdings : new_holdings[k] = id

PhaseOrder ==
    {<<"IDLE", "PARSING">>, <<"PARSING", "PARSED">>, <<"PARSING", "FAILED">>,
     <<"PARSED", "PERSISTING">>, <<"PERSISTING", "PERSISTING">>,
     <<"PERSISTING", "PRICE_ENRICHING">>, <<"PERSISTING", "FAILED">>,
     <<"PRICE_ENRICHING", "PRICE_ENRICHING">>, <<"PRICE_ENRICHING", "SUCCESS">>,
     <<"PRICE_ENRICHING", "FAILED">>}

\* C7: a call reaches SUCCESS only from the enrichment pass, after the pass
\* has gone through its list; the pass starts only when the loop has ended
\* and its writes are committed; the loop starts only after a successful
\* parse; and after a parse error nothing is written, no pass runs and the
\* call stays failed.
C7_PhaseOrdering ==
    [][/\ (phase # "SUCCESS" => <<phase, phase'>> \in PhaseOrder)
       /\ (phase = "SUCCESS" => phase' = "PARSED" /\ run' = run + 1)
       /\ (phase' = "SUCCESS" => phase = "PRICE_ENRICHING" /\ eidx > Len(new_holdings))
       /\ (phase # "PRICE_ENRICHING" /\ phase' = "PRICE_ENRICHING"
             => /\ phase = "PERSISTING"
                /\ idx > Len(holdings_data)
                /\ committed' = Session)
       /\ (phase = "FAILED"
             => /\ phase' = "FAILED"
                /\ committed' = committed
                /\ lookups' = lookups)
       /\ (phase = "PARSING" /\ phase' = "FAILED"
             => committed' = pre_store /\ lookups' = {} /\ import_status' # "success")]_vars

\* C7 witness: a call that inserted a holding and looked up a price is in SUCCESS.
C7_Witness ==
    /\ phase = "SUCCESS"
    /\ imported_count >= 1
    /\ lookups # {}

(***************************************************************************)
(* Symbol handling of the CSV parsers.  A symbol is the sequence of its    *)
(* characters, so that substring, suffix and case tests are computed.      *)
(***************************************************************************)

\* Bound: a raw symbol is the concatenation of at most this many fragments.
MaxTokens == 2

Lower == <<"a", "b", "c", "d", "e", "f", "g", "h", "i", "j", "k", "l", "m", "n", "o", "p", "q", "r", "s", "t", "u", "v", "w", "x", "y", "z">>

UpperOf == <<"A", "B", "C", "D", "E", "F", "G", "H", "I", "J", "K", "L", "M", "N", "O", "P", "Q", "R", "S", "T", "U", "V", "W", "X", "Y", "Z">>

UpperChar(c) ==
    IF \E i \in DOMAIN Lower : Lower[i] = c
    THEN UpperOf[CHOOSE i \in DOMAIN Lower : Lower[i] = c]
    ELSE c

\* str.upper()
Upper(s) == [i \in DOMAIN s |-> UpperChar(s[i])]

\* sub in s
Contains(s, sub) ==
    \E i \in 0..(Len(s) - Len(sub)) : SubSeq(s, i + 1, i + Len(sub)) = sub

\* s.startswith(sub)
StartsWith(s, sub) == Len(s) >= Len(sub) /\ SubSeq(s, 1, Len(sub)) = sub

\* s.endswith(sub)
EndsWith(s, sub) ==
    Len(s) >= Len(sub) /\ SubSeq(s, Len(s) - Len(sub) + 1, Len(s)) = sub

\* str.strip()
Strip(s) ==
    LET keep == {i \in DOMAIN s : s[i] # " "}
    IN  IF keep = {} THEN <<>>
        ELSE SubSeq(s, CHOOSE i \in keep : \A j \in keep : i <= j,
                       CHOOSE i \in keep : \A j \in keep : i >= j)

\* s.replace(c, '')
Remove(s, c) == SelectSeq(s, LAMBDA x : x # c)

\* table[s] if s in table else s
MapSymbol(table, s) ==
    IF \E p \in table : p[1] = s
    THEN (CHOOSE p \in table : p[1] = s)[2]
    ELSE s

ETF_SYMBOL_MAPPINGS ==
    { <<<<"M", "A", "F", "S", "E", "T", "F", "I", "N", "A", "V">>, <<"M", "A", "F", "S", "E", "T", "F">>>>,
      <<<<"M", "O", "M", "1", "0", "0", "I", "N", "A", "V">>, <<"M", "O", "M", "1", "0", "0">>>>,
      <<<<"S", "E", "T", "F", "N", "I", "F", "5", "0">>, <<"S", "E", "T", "F", "N", "N", "5", "0">>>>,
      <<<<"N", "I", "F", "T", "Y", "B", "E", "E", "S">>, <<"N", "I", "F", "T", "Y", "B", "E", "E", "S">>>>,
      <<<<"B", "A", "N", "K", "B", "E", "E", "S">>, <<"B", "A", "N", "K", "B", "E", "E", "S">>>>,
      <<<<"G", "O", "L", "D", "B", "E", "E", "S">>, <<"G", "O", "L", "D", "B", "E", "E", "S">>>>,
      <<<<"J", "U", "N", "I", "O", "R", "B", "E", "E", "S">>, <<"J", "U", "N", "I", "O", "R", "B", "E", "E", "S">>>>,
      <<<<"L", "I", "Q", "U", "I", "D", "B", "E", "E", "S">>, <<"L", "I", "Q", "U", "I", "D", "B", "E", "E", "S">>>>,
      <<<<"N", "I", "F", "T", "Y", "I", "W", "I", "N">>, <<"N", "I", "F", "T", "Y", "I", "W", "I", "N">>>>,
      <<<<"I", "C", "I", "C", "I", "B", "2", "2">>, <<"I", "C", "I", "C", "I", "B", "2", "2">>>>,
      <<<<"S", "E", "T", "F", "N", "I", "F", "B", "K">>, <<"S", "E", "T", "F", "N", "I", "F", "B", "K">>>>,
      <<<<"L", "I", "Q", "U", "I", "D", "B", "E", "E", "S", "I", "N", "A", "V">>, <<"L", "I", "Q", "U", "I", "D", "B", "E", "E", "S">>>>,
      <<<<"G", "O", "L", "D", "B", "E", "E", "S", "I", "N", "A", "V">>, <<"G", "O", "L", "D", "B", "E", "E", "S">>>>,
      <<<<"N", "I", "F", "T", "Y", "B", "E", "E", "S", "I", "N", "A", "V">>, <<"N", "I", "F", "T", "Y", "B", "E", "E", "S">>>>,
      <<<<"B", "A", "N", "K", "B", "E", "E", "S", "I", "N", "A", "V">>, <<"B", "A", "N", "K", "B", "E", "E", "S">>>>,
      <<<<"J", "U", "N", "I", "O", "R", "B", "E", "E", "S", "I", "N", "A", "V">>, <<"J", "U", "N", "I", "O", "R", "B", "E", "E", "S">>>> }

etf_keywords ==
    { <<"E", "T", "F">>, <<"N", "I", "F", "T", "Y">>, <<"S", "E", "N", "S", "E", "X">>, <<"G", "O", "L", "D">>,
      <<"S", "I", "L", "V", "E", "R">>, <<"L", "I", "Q", "U", "I", "D">>, <<"G", "I", "L", "T">>, <<"C", "P", "S", "E">>,
      <<"P", "S", "U">>, <<"B", "A", "N", "K">>, <<"I", "T">>, <<"P", "H", "A", "R", "M", "A">>,
      <<"A", "U", "T", "O">>, <<"F", "M", "C", "G">>, <<"N", "E", "X", "T", "5", "0">>, <<"M", "I", "D", "C", "A", "P">>,
      <<"S", "M", "A", "L", "L", "C", "A", "P">>, <<"D", "I", "V", "I", "D", "E", "N", "D">>, <<"V", "A", "L", "U", "E">>, <<"M", "O", "M", "E", "N", "T", "U", "M">>,
      <<"Q", "U", "A", "L", "I", "T", "Y">>, <<"L", "O", "W", "V", "O", "L">>, <<"A", "L", "P", "H", "A">>, <<"B", "H", "A", "R", "A", "T">>,
      <<"M", "A", "F", "A", "N", "G">>, <<"N", "A", "S", "D", "A", "Q">>, <<"H", "A", "N", "G">> }

known_etfs ==
    { <<"M", "A", "F", "S", "E", "T", "F", "I", "N", "A", "V">>, <<"N", "I", "F", "T", "Y", "B", "E", "E", "S">>,
      <<"B", "A", "N", "K", "B", "E", "E", "S">>, <<"G", "O", "L", "D", "B", "E", "E", "S">>,
      <<"J", "U", "N", "I", "O", "R", "B", "E", "E", "S">>, <<"S", "E", "T", "F", "N", "I", "F", "5", "0">>,
      <<"S", "E", "T", "F", "N", "I", "F", "T", "Y">>, <<"S", "E", "T", "F", "N", "N", "5", "0">> }

\* The two characters isin[9:11] that mark an ETF series.
EtfIsinSeries ==
    { <<"0", "1">>, <<"H", "1">>, <<"K", "1">>, <<"L", "1">>, <<"M", "1">>, <<"N", "1">>,
      <<"P", "1">>, <<"Q", "1">>, <<"R", "1">>, <<"S", "1">>, <<"T", "1">> }

symbol_mappings ==
    { <<<<"C", "o", "l", "g", "a", "t", "e", "P", "a", "l", "m", "o", "l", "i", "v", "e">>, <<"C", "O", "L", "P", "A", "L">>>>,
      <<<<"H", "D", "F", "C", "B", "a", "n", "k">>, <<"H", "D", "F", "C", "B", "A", "N", "K">>>>,
      <<<<"L", "a", "r", "s", "e", "n", "T", "o", "u", "b", "r", "o">>, <<"L", "T">>>>,
      <<<<"P", "i", "d", "i", "l", "i", "t", "e">>, <<"P", "I", "D", "I", "L", "I", "T", "I", "N", "D">>>>,
      <<<<"H", "C", "L", "T", "e", "c", "h", "n", "o", "l", "o", "g", "i", "e", "s">>, <<"H", "C", "L", "T", "E", "C", "H">>>>,
      <<<<"A", "P", "L", "A", "p", "o", "l", "l", "o", "T", "u", "b", "e", "s">>, <<"A", "P", "L", "A", "P", "O", "L", "L", "O">>>>,
      <<<<"A", "s", "i", "a", "n", "P", "a", "i", "n", "t", "s">>, <<"A", "S", "I", "A", "N", "P", "A", "I", "N", "T">>>>,
      <<<<"C", "o", "c", "h", "i", "n", "S", "h", "i", "p", "y", "a", "r", "d">>, <<"C", "O", "C", "H", "I", "N", "S", "H", "I", "P">>>>,
      <<<<"C", "E", "I", "n", "f", "o", "s", "y", "s", "t", "e", "m">>, <<"M", "A", "P", "M", "Y", "I", "N", "D", "I", "A">>>>,
      <<<<"S", "u", "p", "r", "e", "m", "e", "I", "n", "d", "u", "s", "t", "r", "i", "e", "s">>, <<"S", "U", "P", "R", "E", "M", "E", "I", "N", "D">>>>,
      <<<<"A", "s", "h", "o", "k", "L", "e", "y", "l", "a", "n", "d">>, <<"A", "S", "H", "O", "K", "L", "E", "Y">>>>,
      <<<<"J", "i", "o", "F", "i", "n", "a", "n", "c", "i", "a", "l", "S", "e", "r", "v", "i", "c", "e", "s">>, <<"J", "I", "O", "F", "I", "N">>>>,
      <<<<"I", "D", "F", "C", "F", "i", "r", "s", "t", "B", "a", "n", "k">>, <<"I", "D", "F", "C", "F", "I", "R", "S", "T", "B">>>>,
      <<<<"D", "e", "l", "t", "a", "C", "o", "r", "p">>, <<"D", "E", "L", "T", "A", "C", "O", "R", "P">>>>,
      <<<<"I", "n", "f", "o", "s", "y", "s">>, <<"I", "N", "F", "Y">>>> }

ExchangeSuffixes ==
    { <<".", "N", "S">>, <<".", "B", "O">>, <<".", "N", "S", "E">>, <<".", "B", "S", "E">> }

T_ETF == <<"E", "T", "F">>
T_BEES == <<"B", "E", "E", "S">>
T_NAV == <<"N", "A", "V">>
T_SGB == <<"S", "G", "B">>
T_GOLD == <<"G", "O", "L", "D">>
T_REIT == <<"R", "E", "I", "T">>
T_RR == <<"-", "R", "R">>
T_RT == <<"-", "R", "T">>
T_INF == <<"I", "N", "F">>
T_NSE == <<"N", "S", "E">>
T_BSE == <<"B", "S", "E">>

\* The ISIN test of the current-schema rows.
IsEtfIsin(isin) ==
    /\ StartsWith(isin, T_INF)
    /\ Len(isin) = 12
    /\ SubSeq(isin, 10, 11) \in EtfIsinSeries

\* Asset type of a current-schema Zerodha row: each test overrides the
\* result of the tests before it.
ZerodhaAssetType(symbol, isin) ==
    LET u  == Upper(symbol)
        a0 == "stock"
        a1 == IF isin # <<>> /\ IsEtfIsin(isin) THEN "etf" ELSE a0
        a2 == IF \/ ((\E k \in etf_keywords : Contains(u, k)) /\ Contains(u, T_ETF))
                 \/ u \in known_etfs
                 \/ EndsWith(u, T_BEES)
              THEN "etf" ELSE a1
        a3 == IF Contains(u, T_SGB) \/ StartsWith(u, T_SGB) THEN "sgb" ELSE a2
        a4 == IF Contains(u, T_REIT) \/ EndsWith(u, T_RR) \/ EndsWith(u, T_RT)
              THEN "reit" ELSE a3
    IN  a4

\* Asset type of a legacy-schema Zerodha row.
LegacyAssetType(symbol) ==
    LET u  == Upper(symbol)
        a0 == "stock"
        a1 == IF \/ ((\E k \in etf_keywords : Contains(u, k)) /\ Contains(u, T_ETF))
                 \/ u \in known_etfs
                 \/ EndsWith(u, T_BEES)
              THEN "etf" ELSE a0
        a2 == IF Contains(u, T_SGB) \/ StartsWith(u, T_SGB) THEN "sgb" ELSE a1
        a3 == IF Contains(u, T_REIT) \/ EndsWith(u, T_RR) \/ EndsWith(u, T_RT)
              THEN "reit" ELSE a2
    IN  a3

\* re.match(r'(.+?)\s+(NSE|BSE)', instrument): the lengths n of group 1 for
\* which the rest of the pattern matches; the lazy group takes the least.
InstrumentSplits(instrument) ==
    {n \in 1..Len(instrument) :
        \E m \in 1..Len(instrument) :
            /\ n + m + 3 <= Len(instrument)
            /\ \A i \in (n + 1)..(n + m) : instrument[i] = " "
            /\ SubSeq(instrument, n + m + 1, n + m + 3) \in {T_NSE, T_BSE}}

\* Symbol and exchange of a legacy-schema row.
SplitInstrument(instrument) ==
    LET ns == InstrumentSplits(instrument)
    IN  IF ns # {}
        THEN LET n == CHOOSE k \in ns : \A j \in ns : k <= j
                 m == CHOOSE k \in 1..Len(instrument) :
                          /\ n + k + 3 <= Len(instrument)
                          /\ \A i \in (n + 1)..(n + k) : instrument[i] = " "
                          /\ SubSeq(instrument, n + k + 1, n + k + 3) \in {T_NSE, T_BSE}
             IN  [symbol |-> Strip(SubSeq(instrument, 1, n)),
                  exchange |-> IF SubSeq(instrument, n + m + 1, n + m + 3) = T_NSE
                               THEN "NSE" ELSE "BSE"]
        ELSE [symbol |-> Strip(instrument), exchange |-> "NSE"]

\* re.sub(r'\.(NS|BO|NSE|BSE)$', '', symbol, flags=re.IGNORECASE)
DropExchangeSuffix(symbol) ==
    IF \E x \in ExchangeSuffixes : EndsWith(Upper(symbol), x)
    THEN LET x == CHOOSE y \in ExchangeSuffixes : EndsWith(Upper(symbol), y)
         IN  SubSeq(symbol, 1, Len(symbol) - Len(x))
    ELSE symbol

\* The symbol a generic-CSV row ends up with: cleaning, then both mappings.
GenericSymbol(raw) ==
    LET s0 == Strip(raw)
        s1 == DropExchangeSuffix(s0)
        s2 == Remove(Remove(Remove(s1, " "), "&"), ".")
        s3 == MapSymbol(symbol_mappings, s2)
    IN  MapSymbol(ETF_SYMBOL_MAPPINGS, s3)

\* Asset type of a generic-CSV row: the first test that holds decides.
GenericAssetType(symbol) ==
    LET symbol_upper == Upper(symbol)
    IN  IF \/ Contains(symbol_upper, T_ETF)
           \/ EndsWith(symbol_upper, T_BEES)
           \/ EndsWith(symbol_upper, T_NAV)
        THEN "etf"
        ELSE IF Contains(symbol_upper, T_GOLD) /\ Contains(symbol_upper, T_SGB)
        THEN "sgb"
        ELSE IF \/ Contains(symbol_upper, T_REIT)
                \/ EndsWith(symbol_upper, T_RR)
                \/ EndsWith(symbol_upper, T_RT)
        THEN "reit"
        ELSE "stock"

\* Fragments the raw symbols of the rows are made of.
SymbolTokens ==
    { <<"R", "E", "I", "T">>, <<"S", "G", "B">>, <<"E", "T", "F">>,
      <<"B", "E", "E", "S">>, <<"G", "O", "L", "D">>, <<"-", "R", "R">>,
      <<"-", "R", "T">>, <<"N", "A", "V">>, <<"N", "I", "F", "T", "Y">>,
      <<"M", "A", "R", "2", "9">>, <<"M", "I", "N", "D", "S", "P", "A", "C", "E">>, <<"R", "E", "L", "I", "A", "N", "C", "E">>,
      <<"r", "e", "i", "t">>, <<"I", "n", "f", "o", "s", "y", "s">>, <<".", "N", "S">>,
      <<" ">> }

RECURSIVE Concat(_)
Concat(ts) == IF ts = <<>> THEN <<>> ELSE Head(ts) \o Concat(Tail(ts))

\* Raw symbols of at most n fragments.
RawSymbols(n) ==
    {Concat(ts) : ts \in UNION {[1..k -> SymbolTokens] : k \in 1..n}}

\* ISIN cells: absent, an ETF-series fund ISIN, an equity ISIN.
RawIsins == {<<>>, <<"I", "N", "F", "1", "2", "3", "4", "5", "6", "N", "1", "2">>,
             <<"I", "N", "E", "0", "0", "2", "A", "0", "1", "0", "1", "8">>}

\* Rows of each schema whose symbol has at most n fragments.
ClassifyInputs(n) ==
    {[kind |-> "row", schema |-> "current", symbol |-> s, isin |-> i, exchange |-> <<>>] :
        s \in RawSymbols(n), i \in RawIsins}
    \cup
    {[kind |-> "row", schema |-> "legacy", symbol |-> s, isin |-> <<>>, exchange |-> x] :
        s \in RawSymbols(n), x \in {<<>>, <<" ">> \o T_NSE, <<" ">> \o T_BSE}}
    \cup
    {[kind |-> "row", schema |-> "generic", symbol |-> s, isin |-> <<>>, exchange |-> <<>>] :
        s \in RawSymbols(n)}

\* One current-schema row goes through the symbol steps of the Zerodha parser.
ClassifyCurrentRow ==
    /\ parse_in.kind = "row"
    /\ parse_in.schema = "current"
    /\ parse_out = NoParse
    /\ LET symbol == Strip(parse_in.symbol)
           isin   == Strip(parse_in.isin)
       IN  parse_out' =
               IF symbol = <<>>
               THEN [kind |-> "skipped"]
               ELSE [kind |-> "holding",
                     symbol |-> MapSymbol(ETF_SYMBOL_MAPPINGS, symbol),
                     exchange |-> "NSE",
                     asset_type |-> ZerodhaAssetType(symbol, isin),
                     isin |-> isin]
    /\ UNCHANGED <<parse_in, calls, ivars>>

\* One legacy-schema row goes through the symbol steps of the Zerodha parser.
ClassifyLegacyRow ==
    /\ parse_in.kind = "row"
    /\ parse_in.schema = "legacy"
    /\ parse_out = NoParse
    /\ LET m == SplitInstrument(parse_in.symbol \o parse_in.exchange)
       IN  parse_out' = [kind |-> "holding",
                         symbol |-> m.symbol,
                         exchange |-> m.exchange,
                         asset_type |-> LegacyAssetType(m.symbol),
                         isin |-> <<>>]
    /\ UNCHANGED <<parse_in, calls, ivars>>

\* One row goes through the symbol steps of the generic CSV parser.
ClassifyGenericRow ==
    /\ parse_in.kind = "row"
    /\ parse_in.schema = "generic"
    /\ parse_out = NoParse
    /\ LET symbol == GenericSymbol(parse_in.symbol)
       IN  parse_out' = [kind |-> "holding",
                         symbol |-> symbol,
                         exchange |-> "NSE",
                         asset_type |-> GenericAssetType(symbol),
                         isin |-> <<>>]
    /\ UNCHANGED <<parse_in, calls, ivars>>

InitClassify ==
    /\ committed = <<>>
    /\ autoflush = TRUE
    /\ IdleCall
    /\ parse_in \in ClassifyInputs(MaxTokens)
    /\ parse_out = NoParse
    /\ calls = NoCalls

NextClassify ==
    \/ ClassifyCurrentRow
    \/ ClassifyLegacyRow
    \/ ClassifyGenericRow

SpecClassify == InitClassify /\ [][NextClassify]_vars


(***************************************************************************)
(* Properties of the symbol classification.                                *)
(***************************************************************************)

\* The classification rules as stated for the classifier, on an upper-cased
\* symbol u (and the ISIN of the row, <<>> when there is none).
ReitRule(u) == Contains(u, T_REIT) \/ EndsWith(u, T_RR) \/ EndsWith(u, T_RT)

SgbRule(u) == Contains(u, T_SGB) \/ StartsWith(u, T_SGB)

EtfRule(u, isin) ==
    \/ EndsWith(u, T_BEES)
    \/ EndsWith(u, T_NAV)
    \/ Contains(u, T_ETF)
    \/ u \in known_etfs
    \/ (isin # <<>> /\ IsEtfIsin(isin))

\* The symbol the row was classified under, upper-cased.
Classified == Upper(parse_out.symbol)

\* C8: on every path that classifies symbols the priority is REIT, then SGB,
\* then ETF: a holding whose symbol meets both the REIT rule and the ETF rule
\* is emitted as reit, and one whose symbol meets both the SGB rule and the
\* ETF rule (and not the REIT rule) is emitted as sgb.
C8_ClassificationPriority ==
    parse_out.kind = "holding" =>
        /\ (ReitRule(Classified) /\ EtfRule(Classified, parse_out.isin))
               => parse_out.asset_type = "reit"
        /\ (SgbRule(Classified) /\ EtfRule(Classified, parse_out.isin)
                /\ ~ReitRule(Classified))
               => parse_out.asset_type = "sgb"

\* The four symbols named as examples of the classification.
NIFTYBEES == <<"N", "I", "F", "T", "Y", "B", "E", "E", "S">>

SGBMAR29 == <<"S", "G", "B", "M", "A", "R", "2", "9">>

MINDSPACE_RR == <<"M", "I", "N", "D", "S", "P", "A", "C", "E", "-", "R", "R">>

RELIANCE == <<"R", "E", "L", "I", "A", "N", "C", "E">>

\* C9: on the Zerodha and the generic path alike, a symbol containing SGB
\* with no REIT marker is sgb, a symbol ending in BEES with no REIT or SGB
\* marker is etf, a symbol ending in -RR is reit, and a symbol matching no
\* rule is stock; NIFTYBEES is etf, SGBMAR29 is sgb, MINDSPACE-RR is reit
\* and RELIANCE (with no ETF-series ISIN on its row) is stock.
C9_ClassificationResults ==
    parse_out.kind = "holding" =>
        /\ (Contains(Classified, T_SGB) /\ ~ReitRule(Classified))
               => parse_out.asset_type = "sgb"
        /\ (EndsWith(Classified, T_BEES) /\ ~ReitRule(Classified)
                /\ ~SgbRule(Classified))
               => parse_out.asset_type = "etf"
        /\ EndsWith(Classified, T_RR) => parse_out.asset_type = "reit"
        /\ (~ReitRule(Classified) /\ ~SgbRule(Classified)
                /\ ~EtfRule(Classified, parse_out.isin))
               => parse_out.asset_type = "stock"
        /\ parse_out.symbol = NIFTYBEES => parse_out.asset_type = "etf"
        /\ parse_out.symbol = SGBMAR29 => parse_out.asset_type = "sgb"
        /\ parse_out.symbol = MINDSPACE_RR => parse_out.asset_type = "reit"
        /\ (parse_out.symbol = RELIANCE /\ ~IsEtfIsin(parse_out.isin))
               => parse_out.asset_type = "stock"

(***************************************************************************)
(* The Zerodha holdings CSV as text.  A file is a sequence of lines, a     *)
(* line a sequence of cells, a cell a sequence of text pieces: whole words *)
(* in header and metadata lines, single characters in symbol cells.  An    *)
(* empty line has no cells; an empty cell has no pieces.                   *)
(***************************************************************************)

\* Bound: a file starts with at most this many preamble lines.
MaxPreamble == 5

\* Bound: a file has at most this many data rows.
MaxRows == 1

\* The retry of the current schema tries skiprows 1 .. RetryStop - 1.
RetryStop == 30

Range(s) == {s[i] : i \in DOMAIN s}

RequiredCurrent ==
    << <<"Symbol">>, <<"Quantity", "Available">>, <<"Average", "Price">>,
       <<"Previous", "Closing", "Price">>, <<"Unrealized", "P&L">>,
       <<"Unrealized", "P&L", "Pct.">> >>

RequiredLegacy ==
    << <<"Instrument">>, <<"Qty.">>, <<"Avg.", "cost">>, <<"LTP">>,
       <<"Cur.", "val">>, <<"P&L">> >>

\* word in line
LineHas(line, word) ==
    \E c \in DOMAIN line : \E k \in DOMAIN line[c] : line[c][k] = word

\* Index (from 0) of the first line holding 'Symbol' or 'Instrument';
\* -1 stands for None.
HeaderLine_SymbolOnly(lines) ==
    LET hits == {i \in DOMAIN lines : LineHas(lines[i], "Symbol")}
    IN  IF hits = {} THEN -1
        ELSE (CHOOSE i \in hits : \A j \in hits : i <= j) - 1

HeaderLine(lines) ==
    LET hits == {i \in DOMAIN lines :
                    LineHas(lines[i], "Symbol") \/ LineHas(lines[i], "Instrument")}
    IN  IF hits = {} THEN -1
        ELSE (CHOOSE i \in hits : \A j \in hits : i <= j) - 1

Widest(a, b) == IF a >= b THEN a ELSE b

\* pd.read_csv(contents, skiprows=skip): the first skip lines are dropped,
\* then the empty lines; the first line left names the columns.  The first
\* data line may be wider than the header (its leading cells then form the
\* index); a later line wider than both is a tokenizing error.  Short lines
\* are filled with empty cells.
ReadCsv(lines, skip) ==
    LET rest == SubSeq(lines, skip + 1, Len(lines))
        kept == SelectSeq(rest, LAMBDA l : l # <<>>)
    IN  IF kept = <<>> THEN [ok |-> FALSE]
        ELSE LET header == Head(kept)
                 data   == Tail(kept)
                 width  == IF data = <<>> THEN Len(header)
                           ELSE Widest(Len(header), Len(Head(data)))
                 lead   == width - Len(header)
             IN  IF \E i \in DOMAIN data : Len(data[i]) > width
                 THEN [ok |-> FALSE]
                 ELSE [ok |-> TRUE,
                       columns |-> header,
                       rows |-> [i \in DOMAIN data |->
                                    [j \in DOMAIN header |->
                                        IF j + lead <= Len(data[i])
                                        THEN data[i][j + lead] ELSE <<>>]]]

\* row[name]
Col(df, row, name) ==
    row[CHOOSE j \in DOMAIN df.columns : df.columns[j] = name]

NumberCells == {<<"0">>, <<"1">>, <<"2">>, <<"2000">>}

\* float(cell) of a cell holding a number; on any other text float() raises
\* ValueError, which RowsToHoldings tests before it converts.
ToFloat(cell) ==
    CASE cell = <<"0">> -> 0
      [] cell = <<"1">> -> 1
      [] cell = <<"2">> -> 2
      [] cell = <<"2000">> -> 2000

ParseFailed == [kind |-> "error"]

\* str(cell): an empty cell is read as NaN, whose text is 'nan'.
StrCell(cell) == IF cell = <<>> THEN <<"n", "a", "n">> ELSE cell

\* The holding of one current-schema row.
CurrentHolding(df, row) ==
    LET symbol        == Strip(Col(df, row, <<"Symbol">>))
        quantity      == ToFloat(Col(df, row, <<"Quantity", "Available">>))
        current_price == ToFloat(Col(df, row, <<"Previous", "Closing", "Price">>))
        isin          == IF <<"ISIN">> \in Range(df.columns)
                         THEN Strip(Col(df, row, <<"ISIN">>)) ELSE <<>>
    IN  [symbol |-> MapSymbol(ETF_SYMBOL_MAPPINGS, symbol),
         exchange |-> "NSE",
         quantity |-> quantity,
         average_price |-> ToFloat(Col(df, row, <<"Average", "Price">>)),
         current_price |-> current_price,
         current_value |-> quantity * current_price,
         pnl |-> ToFloat(Col(df, row, <<"Unrealized", "P&L">>)),
         pnl_percentage |-> ToFloat(Col(df, row, <<"Unrealized", "P&L", "Pct.">>)),
         asset_type |-> ZerodhaAssetType(symbol, isin),
         isin |-> isin]

\* The holding of one legacy-schema row.
LegacyHolding(df, row) ==
    LET m             == SplitInstrument(StrCell(Col(df, row, <<"Instrument">>)))
        quantity      == ToFloat(Col(df, row, <<"Qty.">>))
        average_price == ToFloat(Col(df, row, <<"Avg.", "cost">>))
        pnl           == ToFloat(Col(df, row, <<"P&L">>))
        investment    == quantity * average_price
    IN  [symbol |-> m.symbol,
         exchange |-> m.exchange,
         quantity |-> quantity,
         average_price |-> average_price,
         current_price |-> ToFloat(Col(df, row, <<"LTP">>)),
         current_value |-> ToFloat(Col(df, row, <<"Cur.", "val">>)),
         pnl |-> pnl,
         asset_type |-> LegacyAssetType(m.symbol),
         pnl_percentage |-> IF investment > 0
                            THEN (pnl * 100) \div investment ELSE 0]

\* The row loop of the detected schema; a cell float() rejects ends the parse.
RowsToHoldings(df) ==
    IF <<"Symbol">> \in Range(df.columns)
    THEN LET rs == SelectSeq(df.rows,
                       LAMBDA r : Strip(Col(df, r, <<"Symbol">>)) # <<>>)
         IN  IF \E i \in DOMAIN rs : \E j \in 2..Len(RequiredCurrent) :
                    Col(df, rs[i], RequiredCurrent[j]) \notin NumberCells
             THEN ParseFailed
             ELSE [kind |-> "holdings",
                   holdings |-> [i \in DOMAIN rs |-> CurrentHolding(df, rs[i])]]
    ELSE IF \E i \in DOMAIN df.rows : \E j \in 2..Len(RequiredLegacy) :
                Col(df, df.rows[i], RequiredLegacy[j]) \notin NumberCells
         THEN ParseFailed
         ELSE [kind |-> "holdings",
               holdings |-> [i \in DOMAIN df.rows |->
                                LegacyHolding(df, df.rows[i])]]

\* The retry of the current schema: the first skiprows whose read either
\* raises or shows every required column decides.
RetryHeader(lines) ==
    LET tries    == 1..(RetryStop - 1)
        raises   == {k \in tries : ~ReadCsv(lines, k).ok}
        complete == {k \in tries \ raises :
                        Range(RequiredCurrent) \subseteq Range(ReadCsv(lines, k).columns)}
        decided  == raises \cup complete
    IN  IF decided = {} THEN [ok |-> FALSE]
        ELSE ReadCsv(lines, CHOOSE k \in decided : \A j \in decided : k <= j)

\* ZerodhaCSVParser.parse_holdings_csv on the lines of the uploaded file.
ParseHoldingsCsv(lines) ==
    IF \A i \in DOMAIN lines : lines[i] = <<>> THEN ParseFailed
    ELSE
    LET header_line == HeaderLine(lines)
        df0 == IF header_line # -1 THEN ReadCsv(lines, header_line)
               ELSE ReadCsv(lines, 0)
    IN  IF ~df0.ok THEN ParseFailed
        ELSE IF <<"Symbol">> \in Range(df0.columns)
        THEN IF Range(RequiredCurrent) \subseteq Range(df0.columns)
             THEN RowsToHoldings(df0)
             ELSE LET df == RetryHeader(lines)
                  IN  IF df.ok THEN RowsToHoldings(df) ELSE ParseFailed
        ELSE IF Range(RequiredLegacy) \subseteq Range(df0.columns)
             THEN RowsToHoldings(df0)
             ELSE ParseFailed

\* Lines a statement export may carry before its header: empty, a title, a
\* client line, and titles that happen to hold the words the header scan
\* looks for.
MetaLines ==
    { <<>>,
      << <<"Holdings", "statement">> >>,
      << <<"Symbol">> >>,
      << <<"Instrument", "summary">> >> }

\* Preambles of at most n lines.
Preambles(n) == UNION {[1..k -> MetaLines] : k \in 0..n}

\* Data rows of each schema: two well-formed ones, one with text in a numeric
\* cell, one with a blank symbol cell.
CurrentRows ==
    { <<<<"R", "E", "L", "I", "A", "N", "C", "E">>,
        <<"2">>, <<"1">>, <<"2">>, <<"2">>, <<"1">> >>,
      <<<<"S", "G", "B", "M", "A", "R", "2", "9">>,
        <<"1">>, <<"1">>, <<"0">>, <<"0">>, <<"0">> >>,
      <<<<"S", "G", "B", "M", "A", "R", "2", "9">>,
        <<"abc">>, <<"1">>, <<"1">>, <<"0">>, <<"0">> >>,
      <<<<" ">>,
        <<"1">>, <<"1">>, <<"1">>, <<"0">>, <<"0">> >> }

LegacyRows ==
    { <<<<"R", "E", "L", "I", "A", "N", "C", "E", " ", "B", "S", "E">>,
        <<"2">>, <<"1">>, <<"2">>, <<"2">>, <<"2">> >>,
      <<<<"N", "I", "F", "T", "Y", "B", "E", "E", "S">>,
        <<"1">>, <<"0">>, <<"1">>, <<"1">>, <<"1">> >>,
      <<<<"N", "I", "F", "T", "Y", "B", "E", "E", "S">>,
        <<"1">>, <<"abc">>, <<"1">>, <<"1">>, <<"0">> >>,
      <<<<>>,
        <<"1">>, <<"1">>, <<"1">>, <<"1">>, <<"0">> >> }

\* Files with a valid header of either schema and n data rows at most.
Bodies(n) ==
    {<<RequiredCurrent>> \o rs :
        rs \in UNION {[1..k -> CurrentRows] : k \in 0..n}}
    \cup
    {<<RequiredLegacy>> \o rs :
        rs \in UNION {[1..k -> LegacyRows] : k \in 0..n}}

CsvInputs ==
    [kind : {"file"}, preamble : Preambles(MaxPreamble), body : Bodies(MaxRows)]

NotParsed == [kind |-> "pending"]

\* The file with its preamble is uploaded and parsed.
ParseWithPreamble ==
    /\ parse_in.kind = "file"
    /\ parse_out.with = NotParsed
    /\ parse_out' = [parse_out EXCEPT
                        !.with = ParseHoldingsCsv(parse_in.preamble \o parse_in.body)]
    /\ UNCHANGED <<parse_in, calls, ivars>>

\* The file without its preamble is uploaded and parsed.
ParseWithoutPreamble ==
    /\ parse_in.kind = "file"
    /\ parse_out.without = NotParsed
    /\ parse_out' = [parse_out EXCEPT
                        !.without = ParseHoldingsCsv(parse_in.body)]
    /\ UNCHANGED <<parse_in, calls, ivars>>

InitCsv ==
    /\ committed = <<>>
    /\ autoflush = TRUE
    /\ IdleCall
    /\ parse_in \in CsvInputs
    /\ parse_out = [kind |-> "csv", with |-> NotParsed, without |-> NotParsed]
    /\ calls = NoCalls

NextCsv ==
    \/ ParseWithPreamble
    \/ ParseWithoutPreamble

SpecCsv == InitCsv /\ [][NextCsv]_vars

(***************************************************************************)
(* Properties of the header location.                                      *)
(***************************************************************************)

BothParsed ==
    /\ parse_out.kind = "csv"
    /\ parse_out.with # NotParsed
    /\ parse_out.without # NotParsed

KeywordFree(preamble) ==
    \A i \in DOMAIN preamble :
        ~LineHas(preamble[i], "Symbol") /\ ~LineHas(preamble[i], "Instrument")

CsvResults == {parse_out.with, parse_out.without}

\* C11: every holding a parser produces with current_price > 0 has
\* current_value = quantity * current_price exactly (here: the holdings of
\* the legacy and the current CSV schema).
C11_CurrentValueInvariant ==
    parse_out.kind = "csv" =>
        \A r \in CsvResults :
            r.kind = "holdings" =>
                \A i \in DOMAIN r.holdings :
                    r.holdings[i].current_price > 0 =>
                        r.holdings[i].current_value =
                            r.holdings[i].quantity * r.holdings[i].current_price


\* The data rows of the uploaded file.
BodyRows == Tail(parse_in.body)

\* C12: a numeric cell whose text is not a number never fails the file parse:
\* the field is defaulted, a warning is recorded and the other rows are
\* parsed, so a file with a valid header always parses to a list of holdings.
C12_RowProblemsNonFatal ==
    (parse_out.kind = "csv" /\ parse_out.without # NotParsed)
        => parse_out.without.kind = "holdings"

\* C14: rows whose symbol cell is blank or whitespace-only never produce a
\* holding: the parse emits one holding per row with a non-blank symbol cell.
C14_BlankRowsSkipped ==
    (parse_out.kind = "csv" /\ parse_out.without.kind = "holdings")
        => Len(parse_out.without.holdings) =
               Cardinality({i \in DOMAIN BodyRows : Strip(BodyRows[i][1]) # <<>>})


\* The lines of the uploaded file, preamble included.
FileLines == parse_in.preamble \o parse_in.body

\* The first header guess: the read at the line the header scan found.
FirstGuess ==
    LET header_line == HeaderLine(FileLines)
    IN  ReadCsv(FileLines, IF header_line # -1 THEN header_line ELSE 0)

\* The required columns of the schema the first guess is recognized as.
RecognizedRequired ==
    IF <<"Symbol">> \in Range(FirstGuess.columns)
    THEN Range(RequiredCurrent) ELSE Range(RequiredLegacy)

\* The numbers of leading rows, among 1 .. RetryStop, whose skipping shows
\* every required column.
RetryHits ==
    {k \in 1..RetryStop :
        /\ ReadCsv(FileLines, k).ok
        /\ RecognizedRequired \subseteq Range(ReadCsv(FileLines, k).columns)}

\* C19: when the first header guess lacks a required column of the
\* recognized schema (legacy or current), the parse uses the first of the
\* attempts with 1, 2, ..., 30 leading rows skipped whose columns contain all
\* required columns, and fails only when none of them does.
C19_HeaderRetry ==
    (/\ parse_out.kind = "csv"
     /\ parse_out.with # NotParsed
     /\ FirstGuess.ok
     /\ ~(RecognizedRequired \subseteq Range(FirstGuess.columns)))
        => parse_out.with =
               IF RetryHits = {} THEN ParseFailed
               ELSE RowsToHoldings(ReadCsv(FileLines,
                        CHOOSE k \in RetryHits : \A j \in RetryHits : k <= j))


(***************************************************************************)
(* Properties of the enrichment pass.                                      *)
(***************************************************************************)

\* C20: the pass that follows the persistence commit selects every stored
\* holding of the platform account whose current_price is 0, has issued a
\* price lookup for each of them, whatever its asset type, when the call
\* succeeds, and changes no holding whose current_price is not 0.
C20_EnrichmentScope ==
    [][/\ (phase = "PERSISTING" /\ phase' = "PRICE_ENRICHING")
          => \A i \in DOMAIN committed' :
                 (/\ committed'[i].platform_account_id = platform_account_id
                  /\ committed'[i].current_price = 0)
                     => \E k \in DOMAIN new_holdings' : new_holdings'[k] = i
       /\ (phase = "PRICE_ENRICHING" /\ phase' = "SUCCESS")
          => \A k \in DOMAIN new_holdings :
                 \E l \in lookups : l[1] = new_holdings[k]
       /\ (phase = "PRICE_ENRICHING" /\ phase' \in {"PRICE_ENRICHING", "SUCCESS"})
          => \A i \in DOMAIN rows :
                 rows[i].current_price # 0 => rows'[i] = rows[i]]_vars


(***************************************************************************)
(* The generic CSV parser.  Column names and symbol cells are sequences of *)
(* characters; numeric cells hold one piece of text.                       *)
(***************************************************************************)

\* Bound: a generic CSV has at most this many data rows.
MaxGenericRows == 2

LowerChar(c) ==
    IF \E i \in DOMAIN UpperOf : UpperOf[i] = c
    THEN Lower[CHOOSE i \in DOMAIN UpperOf : UpperOf[i] = c]
    ELSE c

\* str.lower()
LowerStr(s) == [i \in DOMAIN s |-> LowerChar(s[i])]

\* re.search of a pattern made of literal parts joined by '.*'
RECURSIVE Search(_, _)
Search(parts, s) ==
    IF parts = <<>> THEN TRUE
    ELSE \E i \in 0..(Len(s) - Len(Head(parts))) :
            /\ SubSeq(s, i + 1, i + Len(Head(parts))) = Head(parts)
            /\ Search(Tail(parts), SubSeq(s, i + Len(Head(parts)) + 1, Len(s)))

\* The patterns of _auto_detect_columns, each the sequence of its parts.
SymbolPatterns ==
    { <<<<"s", "y", "m", "b", "o", "l">>>>, <<<<"s", "t", "o", "c", "k">>, <<"n", "a", "m", "e">>>>, <<<<"i", "n", "s", "t", "r", "u", "m", "e", "n", "t">>>>,
      <<<<"s", "c", "r", "i", "p">>>>, <<<<"t", "i", "c", "k", "e", "r">>>>, <<<<"e", "q", "u", "i", "t", "y">>>> }

QuantityPatterns ==
    { <<<<"q", "u", "a", "n", "t", "i", "t", "y">>>>, <<<<"q", "t", "y">>>>, <<<<"s", "h", "a", "r", "e", "s">>>>,
      <<<<"u", "n", "i", "t", "s">>>>, <<<<"h", "o", "l", "d", "i", "n", "g", "s">>>> }

AveragePricePatterns ==
    { <<<<"a", "v", "g">>, <<"p", "r", "i", "c", "e">>>>, <<<<"a", "v", "e", "r", "a", "g", "e">>, <<"p", "r", "i", "c", "e">>>>, <<<<"c", "o", "s", "t">>, <<"p", "r", "i", "c", "e">>>>,
      <<<<"b", "u", "y">>, <<"p", "r", "i", "c", "e">>>>, <<<<"p", "u", "r", "c", "h", "a", "s", "e">>, <<"p", "r", "i", "c", "e">>>>, <<<<"o", "w", "n", "e", "d">>, <<"p", "r", "i", "c", "e">>>>,
      <<<<"a", "c", "q", "u", "i", "s", "i", "t", "i", "o", "n">>, <<"p", "r", "i", "c", "e">>>> }

CurrentPricePatterns ==
    { <<<<"c", "u", "r", "r", "e", "n", "t">>, <<"p", "r", "i", "c", "e">>>>, <<<<"l", "t", "p">>>>, <<<<"l", "a", "s", "t">>, <<"p", "r", "i", "c", "e">>>>,
      <<<<"m", "a", "r", "k", "e", "t">>, <<"p", "r", "i", "c", "e">>>>, <<<<"c", "m", "p">>>>, <<<<"c", "l", "o", "s", "e">>, <<"p", "r", "i", "c", "e">>>> }

\* Index of the first column whose lower-cased name matches one of the
\* patterns; 0 when the field is not in the mapping.
FirstMatch(columns, patterns) ==
    LET hits == {j \in DOMAIN columns :
                    \E p \in patterns : Search(p, LowerStr(columns[j]))}
    IN  IF hits = {} THEN 0 ELSE CHOOSE j \in hits : \A k \in hits : j <= k

\* GenericCSVParser._auto_detect_columns
AutoDetectColumns(columns) ==
    [symbol        |-> FirstMatch(columns, SymbolPatterns),
     quantity      |-> FirstMatch(columns, QuantityPatterns),
     average_price |-> FirstMatch(columns, AveragePricePatterns),
     current_price |-> FirstMatch(columns, CurrentPricePatterns)]

\* missing_fields of a row whose mapping has no quantity column: none, in the
\* variant that forgets the warning.
QuantityMissing_NoWarning == <<>>

QuantityMissing == <<"quantity">>

\* The quantity of a row and the missing-field entries it adds.
GenericQuantity(mapping, row) ==
    IF mapping.quantity # 0
    THEN [value |-> IF row[mapping.quantity] \in NumberCells
                    THEN ToFloat(row[mapping.quantity]) ELSE 1,
          missing |-> <<>>]
    ELSE [value |-> 1, missing |-> QuantityMissing]

\* The average price of a row and the missing-field entries it adds.
GenericAveragePrice(mapping, row) ==
    IF mapping.average_price # 0
    THEN IF row[mapping.average_price] \in NumberCells
         THEN [value |-> ToFloat(row[mapping.average_price]), missing |-> <<>>]
         ELSE [value |-> 0, missing |-> <<"average_price (invalid value)">>]
    ELSE [value |-> 0, missing |-> <<"average_price">>]

\* The current price of a row; it never adds a missing-field entry.
GenericCurrentPrice(mapping, row) ==
    IF mapping.current_price # 0 /\ row[mapping.current_price] \in NumberCells
    THEN ToFloat(row[mapping.current_price])
    ELSE 0

\* The holding and the warning (<<>> when there is none) of one row.
GenericRow(mapping, row, pos) ==
    LET original_symbol == Strip(row[mapping.symbol])
        symbol   == GenericSymbol(row[mapping.symbol])
        quantity == GenericQuantity(mapping, row)
        avg      == GenericAveragePrice(mapping, row)
        missing_fields == quantity.missing \o avg.missing
    IN  [holding |-> ParsedHolding(symbol, "NSE", GenericAssetType(symbol),
                                   quantity.value, avg.value,
                                   GenericCurrentPrice(mapping, row),
                                   NoneVal, NoneVal),
         warnings |-> IF missing_fields # <<>>
                      THEN <<[symbol |-> original_symbol,
                              missing_fields |-> missing_fields,
                              row_number |-> pos + 1]>>
                      ELSE <<>>]

RECURSIVE GenericRows(_, _, _)
\* The row loop from row pos on: rows with an empty symbol cell are skipped.
GenericRows(mapping, rows_, pos) ==
    IF pos > Len(rows_) THEN [holdings |-> <<>>, warnings |-> <<>>]
    ELSE LET rest == GenericRows(mapping, rows_, pos + 1)
         IN  IF rows_[pos][mapping.symbol] = <<>> THEN rest
             ELSE LET r == GenericRow(mapping, rows_[pos], pos)
                  IN  [holdings |-> <<r.holding>> \o rest.holdings,
                       warnings |-> r.warnings \o rest.warnings]

\* GenericCSVParser.parse_custom_holdings on a file with the given column
\* names and data rows, no mapping supplied.
ParseCustomHoldings(columns, rows_) ==
    IF columns = <<>> \/ rows_ = <<>> THEN ParseFailed
    ELSE LET mapping == AutoDetectColumns(columns)
         IN  IF mapping.symbol = 0 THEN ParseFailed
             ELSE LET out == GenericRows(mapping, rows_, 1)
                  IN  IF out.holdings = <<>> THEN ParseFailed
                      ELSE [kind |-> "holdings",
                            holdings |-> out.holdings,
                            warnings |-> out.warnings]

\* Columns a custom export may carry, in this order.
GenericColumnPool ==
    << <<"S", "y", "m", "b", "o", "l">>,
       <<"Q", "t", "y">>,
       <<"A", "v", "g", " ", "P", "r", "i", "c", "e">>,
       <<"L", "T", "P">>,
       <<"S", "e", "c", "t", "o", "r">> >>

\* Full-width rows: a well-formed one, one with an exchange suffix and text
\* in every numeric cell, one with an empty symbol cell.
GenericRowPool ==
    { << <<"R", "E", "L", "I", "A", "N", "C", "E">>, <<"2">>, <<"1">>, <<"2">>, <<"x">> >>,
      << <<"I", "n", "f", "o", "s", "y", "s", ".", "N", "S">>, <<"abc">>, <<"abc">>, <<"abc">>, <<"x">> >>,
      << <<>>, <<"1">>, <<"1">>, <<"1">>, <<"x">> >> }

\* The cells of the chosen columns, in pool order.
Project(s, chosen) ==
    LET F[i \in 0..Len(s)] ==
            IF i = 0 THEN <<>>
            ELSE IF i \in chosen THEN Append(F[i - 1], s[i]) ELSE F[i - 1]
    IN  F[Len(s)]

\* Files: any subset of the pool columns, n full-width rows at most.
GenericInputs(n) ==
    {[kind |-> "generic",
      columns |-> Project(GenericColumnPool, chosen),
      rows |-> [i \in DOMAIN rs |-> Project(rs[i], chosen)]] :
        chosen \in SUBSET DOMAIN GenericColumnPool,
        rs \in UNION {[1..k -> GenericRowPool] : k \in 0..n}}

\* The file is uploaded and parsed.
ParseGenericFile ==
    /\ parse_in.kind = "generic"
    /\ parse_out = NoParse
    /\ parse_out' = [kind |-> "generic",
                     result |-> ParseCustomHoldings(parse_in.columns, parse_in.rows)]
    /\ UNCHANGED <<parse_in, calls, ivars>>

InitGeneric ==
    /\ committed = <<>>
    /\ autoflush = TRUE
    /\ IdleCall
    /\ parse_in \in GenericInputs(MaxGenericRows)
    /\ parse_out = NoParse
    /\ calls = NoCalls

NextGeneric == ParseGenericFile

SpecGeneric == InitGeneric /\ [][NextGeneric]_vars

(***************************************************************************)
(* Properties of the generic CSV parser.                                   *)
(***************************************************************************)

\* No column name matches a quantity pattern.
NoQuantityColumn ==
    \A j \in DOMAIN parse_in.columns :
        \A p \in QuantityPatterns : ~Search(p, LowerStr(parse_in.columns[j]))

\* C13: for a generic CSV none of whose columns is a quantity column, every
\* emitted holding has quantity 1 and a warning of its own whose missing
\* fields contain "quantity", and there are as many such warnings as
\* emitted holdings.
C13_QuantityDefault ==
    (/\ parse_out.kind = "generic"
     /\ parse_out.result.kind = "holdings"
     /\ NoQuantityColumn)
        => LET r == parse_out.result
           IN  /\ \A i \in DOMAIN r.holdings : r.holdings[i].quantity = 1
               /\ Len(SelectSeq(r.warnings,
                        LAMBDA w : "quantity" \in Range(w.missing_fields)))
                      = Len(r.holdings)
               /\ Len(r.warnings) = Len(r.holdings)

\* A file without a quantity column has been parsed into two holdings, one of
\* them from a row that sits after a skipped row.
C13_Witness ==
    /\ parse_out.kind = "generic"
    /\ parse_out.result.kind = "holdings"
    /\ NoQuantityColumn
    /\ Len(parse_in.columns) >= 2
    /\ Len(parse_out.result.holdings) >= 1
    /\ Len(parse_out.result.holdings) < Len(parse_in.rows)
    /\ \A i \in DOMAIN parse_out.result.holdings :
           parse_out.result.holdings[i].quantity = 1


(***************************************************************************)
(* The Excel parser.  A workbook is a sequence of sheets; a sheet has a    *)
(* name and the rows pandas reads from it, each a sequence of cells.       *)
(***************************************************************************)

\* Bound: a workbook has at most this many sheets.
MaxSheets == 2

\* The header scan looks at the first HeaderScanRows rows of a sheet.
HeaderScanRows == 50

\* The content check samples the first SampleSize values of a column.
SampleSize == 5

\* An invested-value cell below PerUnitLimit is read as a per-unit price.
PerUnitLimit == 1000

\* Scheme names are cut to NameLimit characters.
NameLimit == 50

HeaderKeywords ==
    { <<"s", "y", "m", "b", "o", "l">>, <<"q", "u", "a", "n", "t", "i", "t", "y">>, <<"p", "r", "i", "c", "e">>,
      <<"s", "c", "h", "e", "m", "e">>, <<"n", "a", "v">>, <<"u", "n", "i", "t", "s">> }

mf_indicators ==
    { <<"s", "c", "h", "e", "m", "e">>, <<"n", "a", "v">>, <<"f", "o", "l", "i", "o">>,
      <<"u", "n", "i", "t", "s">>, <<"f", "u", "n", "d">>, <<"a", "m", "c">> }

stock_indicators ==
    { <<"s", "y", "m", "b", "o", "l">>, <<"q", "u", "a", "n", "t", "i", "t", "y">>, <<"a", "v", "e", "r", "a", "g", "e", " ", "p", "r", "i", "c", "e">>,
      <<"l", "t", "p">>, <<"e", "x", "c", "h", "a", "n", "g", "e">> }

MfSheetNameMarks ==
    { <<"m", "u", "t", "u", "a", "l">>, <<"f", "u", "n", "d">>, <<"m", "f">> }

StockSheetNameMarks ==
    { <<"s", "t", "o", "c", "k">>, <<"e", "q", "u", "i", "t", "y">>, <<"s", "h", "a", "r", "e">> }

MfValueKeywords ==
    { <<"f", "u", "n", "d">>, <<"s", "c", "h", "e", "m", "e">>, <<"e", "l", "s", "s">>,
      <<"f", "l", "e", "x", "i", " ", "c", "a", "p">>, <<"l", "i", "q", "u", "i", "d">>, <<"d", "e", "b", "t">>,
      <<"e", "q", "u", "i", "t", "y">> }

PlanMarks ==
    { <<"d", "i", "r", "e", "c", "t", " ", "p", "l", "a", "n">>, <<"r", "e", "g", "u", "l", "a", "r", " ", "p", "l", "a", "n">> }

Least(S) == CHOOSE x \in S : \A y \in S : x <= y

\* Index of the header row: the first of the first HeaderScanRows rows with
\* a cell that contains a header keyword; 0 when there is none.
HeaderRow(raw) ==
    LET hits == {i \in DOMAIN raw :
                    /\ i <= HeaderScanRows
                    /\ \E c \in DOMAIN raw[i] : \E k \in HeaderKeywords :
                           Contains(LowerStr(raw[i][c]), k)}
    IN  IF hits = {} THEN 0 ELSE Least(hits)

\* The first SampleSize non-empty cells of column j.
SampleValues(rows_, j) ==
    LET filled == SelectSeq([i \in DOMAIN rows_ |-> rows_[i][j]],
                            LAMBDA c : c # <<>>)
    IN  SubSeq(filled, 1, IF Len(filled) < SampleSize THEN Len(filled) ELSE SampleSize)

\* Sum of f over the elements of a sequence of numbers.
RECURSIVE SumSeq(_)
SumSeq(s) == IF s = <<>> THEN 0 ELSE Head(s) + SumSeq(Tail(s))

\* Index of the column whose lower-cased name is name; 0 when there is none.
ColumnNamed(columns, name) ==
    LET hits == {j \in DOMAIN columns : LowerStr(columns[j]) = name}
    IN  IF hits = {} THEN 0 ELSE Least(hits)

\* mf_count of _detect_sheet_type
MfCount(columns, rows_, sheet_name) ==
    LET columns_lower == [j \in DOMAIN columns |-> LowerStr(columns[j])]
        name_lower == LowerStr(sheet_name)
        by_columns == Cardinality({k \in mf_indicators :
                          \E j \in DOMAIN columns_lower : Contains(columns_lower[j], k)})
        by_name == IF \E k \in MfSheetNameMarks : Contains(name_lower, k)
                   THEN 3 ELSE 0
        symbol_col == ColumnNamed(columns, <<"s", "y", "m", "b", "o", "l">>)
        by_values ==
            IF rows_ # <<>> /\ symbol_col # 0
            THEN LET vals == SampleValues(rows_, symbol_col)
                 IN  SumSeq([i \in DOMAIN vals |->
                        (IF \E k \in MfValueKeywords : Contains(LowerStr(vals[i]), k)
                         THEN 1 ELSE 0)
                        + (IF \E k \in PlanMarks : Contains(LowerStr(vals[i]), k)
                           THEN 2 ELSE 0)])
            ELSE 0
        type_col == ColumnNamed(columns, <<"i", "n", "s", "t", "r", "u", "m", "e", "n", "t", " ", "t", "y", "p", "e">>)
        by_types ==
            IF type_col # 0
            THEN LET vals == SampleValues(rows_, type_col)
                 IN  SumSeq([i \in DOMAIN vals |->
                        IF /\ Contains(LowerStr(vals[i]), <<"e", "q", "u", "i", "t", "y">>)
                           /\ \/ Contains(LowerStr(vals[i]), <<"e", "l", "s", "s">>)
                              \/ Contains(LowerStr(vals[i]), <<"f", "l", "e", "x", "i">>)
                        THEN 2 ELSE 0])
            ELSE 0
    IN  by_columns + by_name + by_values + by_types

\* stock_count of _detect_sheet_type
StockCount(columns, sheet_name) ==
    LET columns_lower == [j \in DOMAIN columns |-> LowerStr(columns[j])]
        name_lower == LowerStr(sheet_name)
    IN  Cardinality({k \in stock_indicators :
            \E j \in DOMAIN columns_lower : Contains(columns_lower[j], k)})
        + (IF \E k \in StockSheetNameMarks : Contains(name_lower, k) THEN 2 ELSE 0)

\* The decision with the comparison turned into 'at least'.
Decide_AtLeast(mf_count, stock_count) ==
    IF mf_count >= stock_count /\ mf_count > 0 THEN "mutual_funds"
    ELSE IF stock_count > 0 THEN "stocks"
    ELSE "none"

\* The decision of _detect_sheet_type from the two scores.
Decide(mf_count, stock_count) ==
    IF mf_count > stock_count THEN "mutual_funds"
    ELSE IF stock_count > 0 THEN "stocks"
    ELSE "none"

\* ExcelParser._detect_sheet_type
DetectSheetType(columns, rows_, sheet_name) ==
    Decide(MfCount(columns, rows_, sheet_name), StockCount(columns, sheet_name))

\* A number cell, read as float(str(cell).replace(',', '')).
IsNumber(cell) == cell \in NumberCells

\* The holding and the warning (<<>> when there is none) of one stock row.
StockSheetRow(mapping, row, pos, sheet_name) ==
    LET original_symbol == Strip(row[mapping.symbol])
        s1 == DropExchangeSuffix(original_symbol)
        symbol == Remove(Remove(Remove(s1, " "), "&"), ".")
        q_ok == mapping.quantity # 0 /\ IsNumber(row[mapping.quantity])
        quantity == IF q_ok THEN ToFloat(row[mapping.quantity]) ELSE 1
        a_ok == mapping.average_price # 0 /\ IsNumber(row[mapping.average_price])
        avg_price == IF a_ok THEN ToFloat(row[mapping.average_price]) ELSE 0
        current_price == GenericCurrentPrice(mapping, row)
        missing_fields ==
            (IF mapping.quantity = 0 THEN <<"quantity">>
             ELSE IF q_ok THEN <<>> ELSE <<"quantity (invalid value)">>)
            \o (IF mapping.average_price = 0 THEN <<"average_price">>
                ELSE IF a_ok THEN <<>> ELSE <<"average_price (invalid value)">>)
        priced == avg_price > 0 /\ current_price > 0
    IN  [holding |->
             [symbol |-> symbol, exchange |-> "NSE", asset_type |-> "stock",
              quantity |-> quantity, average_price |-> avg_price,
              current_price |-> current_price,
              current_value |-> IF current_price > 0 THEN quantity * current_price
                                ELSE quantity * avg_price,
              pnl |-> IF priced THEN (current_price - avg_price) * quantity ELSE 0,
              pnl_percentage |-> IF priced
                                 THEN ((current_price - avg_price) * 100) \div avg_price
                                 ELSE 0,
              isin |-> NoneVal],
         warnings |-> IF missing_fields # <<>>
                      THEN <<[symbol |-> original_symbol,
                              missing_fields |-> missing_fields,
                              row_number |-> pos + 1,
                              sheet |-> sheet_name]>>
                      ELSE <<>>]

RECURSIVE StockSheetRows(_, _, _, _)
StockSheetRows(mapping, rows_, pos, sheet_name) ==
    IF pos > Len(rows_) THEN [holdings |-> <<>>, warnings |-> <<>>]
    ELSE LET rest == StockSheetRows(mapping, rows_, pos + 1, sheet_name)
         IN  IF rows_[pos][mapping.symbol] = <<>> THEN rest
             ELSE LET r == StockSheetRow(mapping, rows_[pos], pos, sheet_name)
                  IN  [holdings |-> <<r.holding>> \o rest.holdings,
                       warnings |-> r.warnings \o rest.warnings]

\* ExcelParser._parse_stock_sheet: _auto_detect_columns raises when no column
\* maps to symbol.
ParseStockSheet(columns, rows_, sheet_name) ==
    LET mapping == AutoDetectColumns(columns)
    IN  IF mapping.symbol = 0 THEN ParseFailed
        ELSE LET out == StockSheetRows(mapping, rows_, 1, sheet_name)
             IN  [kind |-> "sheet", type |-> "stocks", sheet |-> sheet_name,
                  data |-> out.holdings, warnings |-> out.warnings]

SchemeNamePatterns ==
    { <<<<"s", "c", "h", "e", "m", "e">>, <<"n", "a", "m", "e">>>>, <<<<"f", "u", "n", "d">>, <<"n", "a", "m", "e">>>>, <<<<"s", "c", "h", "e", "m", "e">>>>,
      <<<<"f", "u", "n", "d">>>>, <<<<"s", "y", "m", "b", "o", "l">>>> }

FolioPatterns ==
    { <<<<"f", "o", "l", "i", "o">>>>, <<<<"a", "c", "c", "o", "u", "n", "t">>, <<"n", "o">>>> }

UnitsPatterns ==
    { <<<<"u", "n", "i", "t", "s">>>>, <<<<"q", "u", "a", "n", "t", "i", "t", "y">>, <<"a", "v", "a", "i", "l", "a", "b", "l", "e">>>>, <<<<"q", "u", "a", "n", "t", "i", "t", "y">>>>,
      <<<<"b", "a", "l", "a", "n", "c", "e">>, <<"u", "n", "i", "t", "s">>>> }

NavPatterns ==
    { <<<<"n", "a", "v">>>>, <<<<"n", "e", "t">>, <<"a", "s", "s", "e", "t">>, <<"v", "a", "l", "u", "e">>>>, <<<<"p", "r", "e", "v", "i", "o", "u", "s">>, <<"c", "l", "o", "s", "i", "n", "g">>, <<"p", "r", "i", "c", "e">>>>,
      <<<<"p", "r", "i", "c", "e">>>> }

CurrentValuePatterns ==
    { <<<<"c", "u", "r", "r", "e", "n", "t">>, <<"v", "a", "l", "u", "e">>>>, <<<<"m", "a", "r", "k", "e", "t">>, <<"v", "a", "l", "u", "e">>>>, <<<<"v", "a", "l", "u", "e">>>> }

InvestedValuePatterns ==
    { <<<<"i", "n", "v", "e", "s", "t", "e", "d">>, <<"v", "a", "l", "u", "e">>>>, <<<<"c", "o", "s", "t">>, <<"v", "a", "l", "u", "e">>>>, <<<<"p", "u", "r", "c", "h", "a", "s", "e">>, <<"v", "a", "l", "u", "e">>>>,
      <<<<"a", "v", "e", "r", "a", "g", "e">>, <<"p", "r", "i", "c", "e">>>> }

SchemeCodePatterns ==
    { <<<<"s", "c", "h", "e", "m", "e">>, <<"c", "o", "d", "e">>>>, <<<<"f", "u", "n", "d">>, <<"c", "o", "d", "e">>>>, <<<<"a", "m", "f", "i">>, <<"c", "o", "d", "e">>>>,
      <<<<"i", "s", "i", "n">>>> }

\* The column mapping of _parse_mutual_fund_sheet.
MutualFundMapping(columns) ==
    [scheme_name    |-> FirstMatch(columns, SchemeNamePatterns),
     folio_number   |-> FirstMatch(columns, FolioPatterns),
     units          |-> FirstMatch(columns, UnitsPatterns),
     nav            |-> FirstMatch(columns, NavPatterns),
     current_value  |-> FirstMatch(columns, CurrentValuePatterns),
     invested_value |-> FirstMatch(columns, InvestedValuePatterns),
     scheme_code    |-> FirstMatch(columns, SchemeCodePatterns)]

\* ' '.join(name.split()) : runs of spaces become one space, none at the ends.
CollapseSpaces(name) ==
    LET s == Strip(name)
    IN  SelectSeq([i \in DOMAIN s |-> IF s[i] = " " /\ s[i - 1] = " " THEN "" ELSE s[i]],
                  LAMBDA c : c # "")

\* ExcelParser._clean_mutual_fund_name on a name without digits: each of its
\* date and number patterns needs a digit to match, so only the spaces are
\* normalised.
CleanMutualFundName(name) == CollapseSpaces(name)

\* The holding and the warning (<<>> when there is none) of one fund row.
MutualFundRow(mapping, row, pos, sheet_name) ==
    LET scheme_name == CleanMutualFundName(Strip(row[mapping.scheme_name]))
        u_ok == mapping.units # 0 /\ IsNumber(row[mapping.units])
        units == IF u_ok THEN ToFloat(row[mapping.units]) ELSE 0
        n_ok == mapping.nav # 0 /\ IsNumber(row[mapping.nav])
        nav == IF n_ok THEN ToFloat(row[mapping.nav]) ELSE 0
        missing_fields ==
            (IF mapping.units = 0 THEN <<"units">>
             ELSE IF u_ok THEN <<>> ELSE <<"units (invalid value)">>)
            \o (IF mapping.nav = 0 THEN <<"nav">>
                ELSE IF n_ok THEN <<>> ELSE <<"nav (invalid value)">>)
        i_map == mapping.invested_value # 0
        i_ok == i_map /\ IsNumber(row[mapping.invested_value])
        value == IF i_ok THEN ToFloat(row[mapping.invested_value]) ELSE 0
        avg_price ==
            IF ~i_map THEN 0
            ELSE IF ~i_ok THEN nav
            ELSE IF value < PerUnitLimit THEN value
            ELSE IF units > 0 THEN value \div units ELSE nav
        invested_value ==
            IF ~i_ok THEN 0
            ELSE IF value < PerUnitLimit THEN (IF units > 0 THEN value * units ELSE 0)
            ELSE value
        c_ok == mapping.current_value # 0 /\ IsNumber(row[mapping.current_value])
        computed == IF nav > 0 THEN units * nav ELSE 0
        current_value ==
            IF c_ok /\ ToFloat(row[mapping.current_value]) > 0
            THEN ToFloat(row[mapping.current_value]) ELSE computed
    IN  [holding |->
             [symbol |-> SubSeq(scheme_name, 1,
                                IF Len(scheme_name) < NameLimit
                                THEN Len(scheme_name) ELSE NameLimit),
              exchange |-> "MF", asset_type |-> "mutual_fund",
              quantity |-> units, average_price |-> avg_price,
              current_price |-> nav, current_value |-> current_value,
              pnl |-> IF invested_value > 0 THEN current_value - invested_value ELSE 0,
              pnl_percentage |-> IF invested_value > 0
                                 THEN ((current_value - invested_value) * 100)
                                          \div invested_value
                                 ELSE 0,
              isin |-> NoneVal,
              scheme_code |-> IF mapping.scheme_code # 0
                              THEN Strip(StrCell(row[mapping.scheme_code]))
                              ELSE NoneVal],
         warnings |-> IF missing_fields # <<>>
                      THEN <<[symbol |-> scheme_name,
                              missing_fields |-> missing_fields,
                              row_number |-> pos + 1,
                              sheet |-> sheet_name]>>
                      ELSE <<>>]

RECURSIVE MutualFundRows(_, _, _, _)
MutualFundRows(mapping, rows_, pos, sheet_name) ==
    IF pos > Len(rows_) THEN [holdings |-> <<>>, warnings |-> <<>>]
    ELSE LET rest == MutualFundRows(mapping, rows_, pos + 1, sheet_name)
         IN  IF mapping.scheme_name = 0 \/ rows_[pos][mapping.scheme_name] = <<>>
             THEN rest
             ELSE LET r == MutualFundRow(mapping, rows_[pos], pos, sheet_name)
                  IN  [holdings |-> <<r.holding>> \o rest.holdings,
                       warnings |-> r.warnings \o rest.warnings]

\* ExcelParser._parse_mutual_fund_sheet
ParseMutualFundSheet(columns, rows_, sheet_name) ==
    LET out == MutualFundRows(MutualFundMapping(columns), rows_, 1, sheet_name)
    IN  [kind |-> "sheet", type |-> "mutual_funds", sheet |-> sheet_name,
         data |-> out.holdings, warnings |-> out.warnings]

SheetSkipped == [kind |-> "skipped"]

\* What the sheet loop of parse_excel_file makes of one sheet: skipped, an
\* entry of all_data, or an exception (ParseFailed).
ParseSheet(sheet) ==
    LET header_row == HeaderRow(sheet.raw)
    IN  IF header_row = 0 THEN SheetSkipped
        ELSE LET columns == sheet.raw[header_row]
                 rows_   == SubSeq(sheet.raw, header_row + 1, Len(sheet.raw))
             IN  IF rows_ = <<>> THEN SheetSkipped
                 ELSE LET type == DetectSheetType(columns, rows_, sheet.name)
                      IN  IF type = "stocks"
                          THEN ParseStockSheet(columns, rows_, sheet.name)
                          ELSE IF type = "mutual_funds"
                          THEN ParseMutualFundSheet(columns, rows_, sheet.name)
                          ELSE SheetSkipped

\* A sheet whose exception is swallowed counts as skipped.
SheetOutcome_SkipFailing(sheet) ==
    IF ParseSheet(sheet) = ParseFailed THEN SheetSkipped ELSE ParseSheet(sheet)

\* The outcome of a sheet as the loop sees it: nothing catches inside it.
SheetOutcome(sheet) == ParseSheet(sheet)

\* ExcelParser.parse_excel_file on the sheets of the workbook.
ParseExcelFile(sheets) ==
    LET outcomes == [i \in DOMAIN sheets |-> SheetOutcome(sheets[i])]
        all_data == SelectSeq(outcomes, LAMBDA o : o.kind = "sheet")
    IN  IF \E i \in DOMAIN outcomes : outcomes[i] = ParseFailed THEN ParseFailed
        ELSE IF all_data = <<>> THEN ParseFailed
        ELSE [kind |-> "workbook", all_data |-> all_data]

\* Header row and data rows of the sheets a workbook may hold.
SheetTables ==
    << [columns |-> << <<"S", "y", "m", "b", "o", "l">>, <<"Q", "u", "a", "n", "t", "i", "t", "y">>, <<"A", "v", "e", "r", "a", "g", "e", " ", "P", "r", "i", "c", "e">>, <<"L", "T", "P">> >>,
       rows |-> << << <<"R", "E", "L", "I", "A", "N", "C", "E">>, <<"2">>, <<"1">>, <<"2">> >> >>],
      [columns |-> << <<"S", "y", "m", "b", "o", "l">>, <<"Q", "u", "a", "n", "t", "i", "t", "y">>, <<"A", "v", "e", "r", "a", "g", "e", " ", "P", "r", "i", "c", "e">>, <<"L", "T", "P">> >>,
       rows |-> << << <<"A", "x", "i", "s", " ", "E", "q", "u", "i", "t", "y", " ", "F", "u", "n", "d", " ", "D", "i", "r", "e", "c", "t", " ", "P", "l", "a", "n">>, <<"2">>, <<"1">>, <<"2">> >> >>],
      [columns |-> << <<"S", "y", "m", "b", "o", "l">>, <<"Q", "u", "a", "n", "t", "i", "t", "y">>, <<"A", "v", "e", "r", "a", "g", "e", " ", "P", "r", "i", "c", "e">>, <<"L", "T", "P">> >>,
       rows |-> <<  >>],
      [columns |-> << <<"S", "c", "h", "e", "m", "e", " ", "N", "a", "m", "e">>, <<"U", "n", "i", "t", "s">>, <<"N", "A", "V">> >>,
       rows |-> << << <<"A", "x", "i", "s", " ", " ", "B", "l", "u", "e", "c", "h", "i", "p", " ", "F", "u", "n", "d">>, <<"2">>, <<"1">> >> >>],
      [columns |-> << <<"S", "c", "h", "e", "m", "e", " ", "N", "a", "m", "e">>, <<"U", "n", "i", "t", "s">>, <<"N", "A", "V">>, <<"I", "n", "v", "e", "s", "t", "e", "d", " ", "V", "a", "l", "u", "e">>, <<"C", "u", "r", "r", "e", "n", "t", " ", "V", "a", "l", "u", "e">> >>,
       rows |-> << << <<"A", "x", "i", "s", " ", " ", "B", "l", "u", "e", "c", "h", "i", "p", " ", "F", "u", "n", "d">>, <<"2">>, <<"1">>, <<"2000">>, <<"2">> >> >>],
      [columns |-> << <<"Q", "u", "a", "n", "t", "i", "t", "y">>, <<"L", "T", "P">> >>,
       rows |-> << << <<"2">>, <<"1">> >> >>],
      [columns |-> << <<"S", "y", "m", "b", "o", "l">>, <<"N", "A", "V">> >>,
       rows |-> << << <<"R", "E", "L", "I", "A", "N", "C", "E">>, <<"1">> >> >>],
      [columns |-> << <<"N", "a", "m", "e">>, <<"A", "m", "o", "u", "n", "t">> >>,
       rows |-> << << <<"x">>, <<"1">> >> >>],
      [columns |-> << <<"N", "a", "m", "e">>, <<"P", "r", "i", "c", "e">> >>,
       rows |-> << << <<"x">>, <<"1">> >> >>] >>

\* The sheets a workbook may hold: a name and the index of its table.
NamedSheets ==
    { <<<<"S", "h", "e", "e", "t", "1">>, 1>>,
      <<<<"S", "h", "e", "e", "t", "1">>, 2>>,
      <<<<"S", "h", "e", "e", "t", "1">>, 4>>,
      <<<<"S", "h", "e", "e", "t", "1">>, 6>>,
      <<<<"S", "h", "e", "e", "t", "1">>, 7>>,
      <<<<"S", "h", "e", "e", "t", "1">>, 8>>,
      <<<<"S", "h", "e", "e", "t", "1">>, 9>>,
      <<<<"S", "t", "o", "c", "k", "s">>, 3>>,
      <<<<"S", "t", "o", "c", "k", "s">>, 4>>,
      <<<<"S", "t", "o", "c", "k", "s">>, 9>>,
      <<<<"M", "F">>, 1>>,
      <<<<"M", "F">>, 2>>,
      <<<<"M", "F">>, 5>> }

SheetPool == {[name |-> p[1], table |-> SheetTables[p[2]]] : p \in NamedSheets}

\* Workbooks of n sheets at most, their names distinct.
Workbooks(n) ==
    UNION {{w \in [1..k -> SheetPool] :
                \A i, j \in 1..k : i # j => w[i].name # w[j].name} : k \in 0..n}

\* The rows pandas reads from a sheet with header=None.
RawSheet(s) == [name |-> s.name, raw |-> <<s.table.columns>> \o s.table.rows]

\* upload_excel_holdings up to the end of the parse: the account is found,
\* the file name accepted and the workbook parsed; a failed parse ends the
\* call before anything is written.
UploadExcel ==
    /\ parse_in.kind = "excel"
    /\ phase = "IDLE"
    /\ LET result == ParseExcelFile([i \in DOMAIN parse_in.sheets |->
                                        RawSheet(parse_in.sheets[i])])
       IN  /\ parse_out' = [kind |-> "excel", result |-> result]
           /\ phase' = IF result = ParseFailed THEN "FAILED" ELSE "PARSED"
           /\ raised' = IF result = ParseFailed
                        THEN <<"PARSING", "HTTPException">> ELSE raised
    /\ path' = "excel"
    /\ platform_account_id' \in Accounts
    /\ UNCHANGED <<committed, rows, pending, autoflush, holdings_data, idx,
                   imported_count, updated_count, skipped_count, import_status,
                   error_message, new_holdings, eidx, lookups, lookup_failed,
                   pre_store, run, parse_in, calls>>

InitExcel ==
    /\ committed \in InitStores
    /\ autoflush = TRUE
    /\ IdleCall
    /\ parse_in \in [kind : {"excel"}, sheets : Workbooks(MaxSheets)]
    /\ parse_out = NoParse
    /\ calls = NoCalls

NextExcel == UploadExcel

SpecExcel == InitExcel /\ [][NextExcel]_vars


\* The sheets handed to the parser in this call.
GivenSheets == [i \in DOMAIN parse_in.sheets |-> RawSheet(parse_in.sheets[i])]

\* Some sheet of the workbook makes its parser raise.
SomeSheetFails ==
    \E i \in DOMAIN GivenSheets : ParseSheet(GivenSheets[i]) = ParseFailed

\* C15: a parse-phase error aborts the whole file.  When the parse of any
\* sheet of the workbook fails (a sheet classified as stocks without a column
\* that maps to symbol, say, next to a valid sheet), the parse returns no
\* holdings at all, the call ends with an HTTP error, and the holdings store
\* and the session are exactly what they were before the call.
C15_ParseErrorAborts ==
    [][(parse_in.kind = "excel" /\ phase = "IDLE" /\ SomeSheetFails)
        => /\ parse_out'.result = ParseFailed
           /\ phase' = "FAILED"
           /\ raised' = <<"PARSING", "HTTPException">>
           /\ committed' = committed
           /\ rows' = rows
           /\ pending' = pending
           /\ import_status' = import_status]_vars

\* A workbook with a failing stocks sheet next to a valid sheet was uploaded
\* against a store that holds rows: nothing was returned and the store kept
\* its rows.
C15_Witness ==
    /\ parse_out.kind = "excel"
    /\ \E i, j \in DOMAIN GivenSheets :
          /\ ParseSheet(GivenSheets[i]) = ParseFailed
          /\ ParseSheet(GivenSheets[j]).kind = "sheet"
          /\ ParseSheet(GivenSheets[j]).data # <<>>
    /\ parse_out.result = ParseFailed
    /\ phase = "FAILED"
    /\ committed # <<>>
    /\ committed = pre_store

\* The header and data rows the parser works on for sheet i; the sheet was
\* not skipped for want of a header or of data.
SheetColumns(i) == GivenSheets[i].raw[HeaderRow(GivenSheets[i].raw)]

SheetRows(i) ==
    SubSeq(GivenSheets[i].raw, HeaderRow(GivenSheets[i].raw) + 1,
           Len(GivenSheets[i].raw))

SheetRead(i) == HeaderRow(GivenSheets[i].raw) # 0 /\ SheetRows(i) # <<>>

SheetMf(i) == MfCount(SheetColumns(i), SheetRows(i), GivenSheets[i].name)

SheetStock(i) == StockCount(SheetColumns(i), GivenSheets[i].name)

\* The type the parser gave sheet i: that of its entry in all_data, "stocks"
\* for a sheet that made the stock parser raise, "none" for a skipped sheet.
SheetTypeGiven(i) ==
    LET o == ParseSheet(GivenSheets[i])
    IN  IF o.kind = "sheet" THEN o.type
        ELSE IF o = ParseFailed THEN "stocks"
        ELSE "none"

SchemeUnitsNav ==
    << <<"S","c","h","e","m","e"," ","N","a","m","e">>,
       <<"U","n","i","t","s">>, <<"N","A","V">> >>

\* C16: a sheet that has a header and data is handled as mutual funds exactly
\* when its mutual-fund score is strictly greater than its stock score, as
\* stocks when that is not so and the stock score is positive (equal positive
\* scores give stocks), and is skipped otherwise; a sheet with the columns
\* Scheme Name, Units, NAV is handled as mutual funds.
C16_SheetDecision ==
    parse_out.kind = "excel" =>
        \A i \in DOMAIN GivenSheets : SheetRead(i) =>
            /\ (SheetTypeGiven(i) = "mutual_funds") <=> (SheetMf(i) > SheetStock(i))
            /\ (SheetTypeGiven(i) = "stocks")
                   <=> (SheetMf(i) <= SheetStock(i) /\ SheetStock(i) > 0)
            /\ (SheetTypeGiven(i) = "none")
                   <=> (SheetMf(i) <= SheetStock(i) /\ SheetStock(i) = 0)
            /\ (SheetColumns(i) = SchemeUnitsNav)
                   => SheetTypeGiven(i) = "mutual_funds"

\* A workbook was parsed that holds a sheet with equal positive scores, which
\* was handled as stocks, and a Scheme Name / Units / NAV sheet.
C16_Witness ==
    /\ parse_out.kind = "excel"
    /\ \E i, j \in DOMAIN GivenSheets :
          /\ SheetRead(i) /\ SheetMf(i) = SheetStock(i) /\ SheetStock(i) > 0
          /\ SheetTypeGiven(i) = "stocks"
          /\ SheetRead(j) /\ SheetColumns(j) = SchemeUnitsNav
          /\ SheetTypeGiven(j) = "mutual_funds"


(***************************************************************************)
(* The PDF parser's choice of statement parser.  The text of a PDF is the  *)
(* text of its pages, each followed by a line break.                       *)
(***************************************************************************)

\* Bound: a PDF has at most this many pages.
MaxPages == 6

\* A statement kind is recognised from KeywordThreshold keywords on.
KeywordThreshold == 3

mf_keywords ==
    { <<"m", "u", "t", "u", "a", "l", " ", "f", "u", "n", "d">>, <<"s", "c", "h", "e", "m", "e">>, <<"n", "a", "v">>,
      <<"f", "o", "l", "i", "o">>, <<"u", "n", "i", "t", "s">>, <<"r", "e", "d", "e", "m", "p", "t", "i", "o", "n">>,
      <<"a", "m", "c">>, <<"f", "u", "n", "d", " ", "h", "o", "u", "s", "e">> }

demat_keywords ==
    { <<"d", "e", "m", "a", "t">>, <<"c", "d", "s", "l">>, <<"n", "s", "d", "l">>,
      <<"i", "s", "i", "n">>, <<"d", "e", "p", "o", "s", "i", "t", "o", "r", "y">>, <<"s", "e", "c", "u", "r", "i", "t", "i", "e", "s">>,
      <<"s", "h", "a", "r", "e", "s">> }

\* text.lower()
TextLower(text) == LowerStr(text)

\* PDFParser._is_mutual_fund_statement
IsMutualFundStatement(text) ==
    Cardinality({k \in mf_keywords : Contains(TextLower(text), k)}) >= KeywordThreshold

\* PDFParser._is_demat_statement
IsDematStatement(text) ==
    Cardinality({k \in demat_keywords : Contains(TextLower(text), k)}) >= KeywordThreshold

\* A variant of the choice that asks for a demat statement first.
StatementParser_DematFirst(text) ==
    IF IsDematStatement(text) THEN "_parse_demat_statement"
    ELSE IF IsMutualFundStatement(text) THEN "_parse_mutual_fund_statement"
    ELSE "_parse_generic_pdf"

\* The parser parse_pdf_file hands the text to.
StatementParser(text) ==
    IF IsMutualFundStatement(text) THEN "_parse_mutual_fund_statement"
    ELSE IF IsDematStatement(text) THEN "_parse_demat_statement"
    ELSE "_parse_generic_pdf"

\* The page texts a PDF may hold, in the order of the pages.
PageTexts ==
    << <<"M", "u", "t", "u", "a", "l", " ", "F", "u", "n", "d">>, <<"S", "c", "h", "e", "m", "e">>, <<"N", "A", "V">>,
       <<"F", "o", "l", "i", "o">>, <<"D", "e", "m", "a", "t">>, <<"C", "D", "S", "L">>,
       <<"I", "S", "I", "N">>, <<"S", "h", "a", "r", "e", "s">>, <<"S", "t", "a", "t", "e", "m", "e", "n", "t">>,
       <<"N", "a", "v", "i", "g", "a", "t", "o", "r">> >>

\* The text of the PDF whose pages are those of PageTexts numbered in S.
RECURSIVE PdfTextFrom(_, _)
PdfTextFrom(S, i) ==
    IF i > Len(PageTexts) THEN <<>>
    ELSE (IF i \in S THEN PageTexts[i] \o <<"\n">> ELSE <<>>) \o PdfTextFrom(S, i + 1)

PdfInputs(n) ==
    {[kind |-> "pdf", text |-> PdfTextFrom(S, 1)] :
        S \in {T \in SUBSET DOMAIN PageTexts : Cardinality(T) <= n}}

\* parse_pdf_file up to the choice of the statement parser.
DispatchPdf ==
    /\ parse_in.kind = "pdf"
    /\ parse_out = NotParsed
    /\ parse_out' = [kind |-> "pdf", parser |-> StatementParser(parse_in.text)]
    /\ UNCHANGED <<parse_in, calls, ivars>>

InitPdf ==
    /\ committed = <<>>
    /\ autoflush = TRUE
    /\ IdleCall
    /\ parse_in \in PdfInputs(MaxPages)
    /\ parse_out = NotParsed
    /\ calls = NoCalls

NextPdf == DispatchPdf

SpecPdf == InitPdf /\ [][NextPdf]_vars

\* The number of keywords of the set that occur in the text of the PDF,
\* whatever the case of its letters.
KeywordsIn(keywords) ==
    Cardinality({k \in keywords : Contains(LowerStr(parse_in.text), k)})

\* C17: a PDF whose text contains at least 3 of the mutual-fund keywords is
\* parsed as a mutual-fund statement however many demat keywords it contains;
\* one with fewer than 3 of them and at least 3 demat keywords is parsed as a
\* demat statement; any other is parsed as generic.
C17_PdfDispatch ==
    parse_out.kind = "pdf" =>
        /\ KeywordsIn(mf_keywords) >= 3
               => parse_out.parser = "_parse_mutual_fund_statement"
        /\ (KeywordsIn(mf_keywords) < 3 /\ KeywordsIn(demat_keywords) >= 3)
               => parse_out.parser = "_parse_demat_statement"
        /\ (KeywordsIn(mf_keywords) < 3 /\ KeywordsIn(demat_keywords) < 3)
               => parse_out.parser = "_parse_generic_pdf"

\* A PDF with at least 3 keywords of each kind was parsed as a mutual-fund
\* statement.
C17_Witness ==
    /\ parse_out.kind = "pdf"
    /\ KeywordsIn(mf_keywords) >= 3
    /\ KeywordsIn(demat_keywords) >= 3
    /\ parse_out.parser = "_parse_mutual_fund_statement"


(***************************************************************************)
(* Two upload calls for one account that run side by side, each in its own *)
(* session on the shared holdings table.  A session reads what is          *)
(* committed (and what it wrote itself), keeps the objects it loaded, and  *)
(* writes its new objects and the attributes it changed when it commits.   *)
(* A row of the table is identified by its position, rows are never        *)
(* deleted.  The calls are past their parse and have created their import  *)
(* records; the price pass that follows the commit is not part of this     *)
(* specification.                                                          *)
(***************************************************************************)

\* Bound: each of the two files has at most this many holdings.
MaxRaceBatch == 2

RaceCalls == {1, 2}

\* Holdings the two files can contain, in the order of the file: for the
\* stored stock an unchanged row and three changed ones, and a bond that is
\* not stored.
RaceOutputs ==
    <<ParsedHolding("A", "NSE", "stock", 1, 1, 1, NoneVal, NoneVal),
      ParsedHolding("A", "NSE", "stock", 2, 1, 0, NoneVal, NoneVal),
      ParsedHolding("A", "NSE", "stock", 3, 1, 0, NoneVal, NoneVal),
      ParsedHolding("A", "NSE", "stock", 1, 2, 2, NoneVal, NoneVal),
      ParsedHolding("A", "NSE", "sgb", 1, 1, 1, NoneVal, NoneVal)>>

\* The file with the holdings of RaceOutputs numbered in S.
RECURSIVE RaceBatchFrom(_, _)
RaceBatchFrom(S, i) ==
    IF i > Len(RaceOutputs) THEN <<>>
    ELSE (IF i \in S THEN <<RaceOutputs[i]>> ELSE <<>>) \o RaceBatchFrom(S, i + 1)

RaceBatches(n) ==
    {RaceBatchFrom(S, 1) :
        S \in {T \in SUBSET DOMAIN RaceOutputs : Cardinality(T) \in 1..n}}

\* The session and the locals of a call that enters its reconciliation loop.
\* loaded: the rows the session has loaded, as read (orig) and as the call
\* has changed them (cur); added: the objects the call has added.
NewCall(a, batch) ==
    [platform_account_id |-> a, holdings_data |-> batch, idx |-> 1,
     phase |-> "PERSISTING", loaded |-> {}, added |-> <<>>,
     imported_count |-> 0, updated_count |-> 0, skipped_count |-> 0,
     commit_no |-> 0]

RaceInLoop(c) ==
    calls[c].phase = "PERSISTING" /\ calls[c].idx <= Len(calls[c].holdings_data)

\* The holding the loop of call c is at, and its asset type.
RaceRow(c) == calls[c].holdings_data[calls[c].idx]

RaceType(c) == AssetTypeMap("generic", RaceRow(c).asset_type)

\* Rows of the table the query of call c matches.
RaceStoredMatches(c) ==
    Matching(committed, calls[c].platform_account_id, RaceRow(c).symbol, RaceType(c))

\* Objects call c added itself that its query matches: with autoflush they
\* are flushed before the SELECT runs.
RaceAddedMatches(c) ==
    IF autoflush
    THEN Matching(calls[c].added, calls[c].platform_account_id,
                  RaceRow(c).symbol, RaceType(c))
    ELSE {}

\* The object the session of call c holds for row i of the table: the one it
\* loaded before, if any, else the row as committed now.
ObjectOf(c, i) ==
    IF \E e \in calls[c].loaded : e.row = i
    THEN (CHOOSE e \in calls[c].loaded : e.row = i).cur
    ELSE committed[i]

OrigOf(c, i) ==
    IF \E e \in calls[c].loaded : e.row = i
    THEN (CHOOSE e \in calls[c].loaded : e.row = i).orig
    ELSE committed[i]

\* The session of call c after it loaded row i and left it as obj.
Loaded(c, i, obj) ==
    {e \in calls[c].loaded : e.row # i}
        \cup {[row |-> i, orig |-> OrigOf(c, i), cur |-> obj]}

\* Loop body of call c, no row found: db.add(new_holding).
RaceInsert(c) ==
    /\ RaceInLoop(c)
    /\ RaceStoredMatches(c) = {} /\ RaceAddedMatches(c) = {}
    /\ calls' = [calls EXCEPT
           ![c].added = @ \o <<NewHolding("generic", calls[c].platform_account_id,
                                          RaceRow(c))>>,
           ![c].imported_count = @ + 1,
           ![c].idx = @ + 1]
    /\ UNCHANGED <<ivars, pvars>>

\* Loop body of call c, a row found that differs from the file.
RaceUpdate(c) ==
    /\ RaceInLoop(c)
    /\ \/ \E i \in RaceStoredMatches(c) :
            /\ ~NoChanges("generic", ObjectOf(c, i), RaceRow(c))
            /\ calls' = [calls EXCEPT
                   ![c].loaded = Loaded(c, i,
                                    UpdateHolding("generic", ObjectOf(c, i), RaceRow(c))),
                   ![c].updated_count = @ + 1,
                   ![c].idx = @ + 1]
       \/ \E j \in RaceAddedMatches(c) :
            /\ ~NoChanges("generic", calls[c].added[j], RaceRow(c))
            /\ calls' = [calls EXCEPT
                   ![c].added[j] = UpdateHolding("generic", @, RaceRow(c)),
                   ![c].updated_count = @ + 1,
                   ![c].idx = @ + 1]
    /\ UNCHANGED <<ivars, pvars>>

\* Loop body of call c, a row found with the quantity and average price of
\* the file.
RaceSkip(c) ==
    /\ RaceInLoop(c)
    /\ \/ \E i \in RaceStoredMatches(c) :
            /\ NoChanges("generic", ObjectOf(c, i), RaceRow(c))
            /\ calls' = [calls EXCEPT
                   ![c].loaded = Loaded(c, i, ObjectOf(c, i)),
                   ![c].skipped_count = @ + 1,
                   ![c].idx = @ + 1]
       \/ \E j \in RaceAddedMatches(c) :
            /\ NoChanges("generic", calls[c].added[j], RaceRow(c))
            /\ calls' = [calls EXCEPT
                   ![c].skipped_count = @ + 1,
                   ![c].idx = @ + 1]
    /\ UNCHANGED <<ivars, pvars>>

\* The row an UPDATE of the session leaves: the attributes the call changed
\* are written, the others stay as committed.
Written(row, e) ==
    [f \in DOMAIN row |-> IF e.cur[f] # e.orig[f] THEN e.cur[f] ELSE row[f]]

\* A commit that adds an object only when no committed row has its key.
StoreAfterCommit_Upsert(store, s) ==
    [i \in DOMAIN store |->
        IF \E e \in s.loaded : e.row = i
        THEN Written(store[i], CHOOSE e \in s.loaded : e.row = i)
        ELSE store[i]]
    \o SelectSeq(s.added,
                 LAMBDA h : Matching(store, h.platform_account_id, h.symbol,
                                     h.asset_type) = {})

\* The table after db.commit() of a session: its UPDATEs, then its INSERTs.
StoreAfterCommit(store, s) ==
    [i \in DOMAIN store |->
        IF \E e \in s.loaded : e.row = i
        THEN Written(store[i], CHOOSE e \in s.loaded : e.row = i)
        ELSE store[i]]
    \o s.added

\* db.commit() of call c after its loop.
RaceCommit(c) ==
    /\ calls[c].phase = "PERSISTING"
    /\ calls[c].idx > Len(calls[c].holdings_data)
    /\ committed' = StoreAfterCommit(committed, calls[c])
    /\ calls' = [calls EXCEPT
           ![c].phase = "DONE",
           ![c].commit_no = 1 + Cardinality({d \in RaceCalls : calls[d].phase = "DONE"})]
    /\ UNCHANGED <<rows, pending, autoflush, path, platform_account_id, phase,
                   holdings_data, idx, imported_count, updated_count, skipped_count,
                   import_status, error_message, new_holdings, eidx, lookups,
                   lookup_failed, pre_store, run, raised, pvars>>

InitRace ==
    /\ committed \in InitStores
    /\ autoflush \in BOOLEAN
    /\ IdleCall
    /\ parse_in = NoParse
    /\ parse_out = NoParse
    /\ \E a \in Accounts :
          calls \in [RaceCalls -> {NewCall(a, b) : b \in RaceBatches(MaxRaceBatch)}]

NextRace ==
    \E c \in RaceCalls :
        \/ RaceInsert(c)
        \/ RaceUpdate(c)
        \/ RaceSkip(c)
        \/ RaceCommit(c)

SpecRace == InitRace /\ [][NextRace]_vars

BothDone == calls # NoCalls /\ \A c \in RaceCalls : calls[c].phase = "DONE"

\* The reconciliation keys of the objects call c added.
AddedKeys(c) ==
    {<<calls[c].added[j].symbol, calls[c].added[j].asset_type>> :
        j \in DOMAIN calls[c].added}

\* The entry of call c for row i, when the call changed the row.
Changed(c, i) == {e \in calls[c].loaded : e.row = i /\ e.cur # e.orig}

\* C18: the reconciliation key is not protected against concurrent calls.
\* Whenever both calls found no stored holding for a key and added one, the
\* table ends with two holdings of that account, symbol and asset type; and
\* whenever both calls read the same stored holding and changed it, every
\* attribute the later committer changed holds the later committer's value
\* in the end, so that what the earlier one wrote there is lost.
C18_ReconciliationRace ==
    BothDone =>
        /\ \A k \in AddedKeys(1) \cap AddedKeys(2) :
              Cardinality(Matching(committed, calls[1].platform_account_id,
                                   k[1], k[2])) >= 2
        /\ \A i \in DOMAIN pre_store : \A first, last \in RaceCalls :
              \A e1 \in Changed(first, i) : \A e2 \in Changed(last, i) :
                 (/\ calls[first].commit_no < calls[last].commit_no
                  /\ e1.orig = pre_store[i] /\ e2.orig = pre_store[i])
                 => \A f \in DOMAIN e2.cur :
                       e2.cur[f] # e2.orig[f] => committed[i][f] = e2.cur[f]

\* Both interleavings happened in one run: each call added a holding for the
\* same key that was not stored, and the table holds both; and the two calls
\* changed the quantity of the same stored holding to different values from
\* the same read, both reported the update, and the earlier one's quantity is
\* gone.
C18_Witness ==
    /\ BothDone
    /\ AddedKeys(1) \cap AddedKeys(2) # {}
    /\ \A c \in RaceCalls : calls[c].imported_count = 1
    /\ Len(committed) = Len(pre_store) + 2
    /\ \E i \in DOMAIN pre_store :
          \E e1 \in Changed(1, i) : \E e2 \in Changed(2, i) :
             /\ calls[1].commit_no < calls[2].commit_no
             /\ e1.orig = pre_store[i] /\ e2.orig = pre_store[i]
             /\ e1.cur.quantity # e2.cur.quantity
             /\ e1.cur.quantity # pre_store[i].quantity
             /\ committed[i].quantity = e2.cur.quantity
             /\ \A c \in RaceCalls : calls[c].updated_count = 1

\* The holding the enrichment loop is at.
PassHolding == rows[new_holdings[eidx]]

\* C21: in the enrichment pass of every handler a zero-priced mutual-fund
\* holding with a stored scheme_code is looked up by that scheme_code, one
\* without is looked up through the name search, and the name search is
\* used only when no scheme_code is stored.
C21_MutualFundLookup ==
    [][(InPass /\ eidx' = eidx + 1 /\ PassHolding.asset_type = "MUTUAL_FUND")
        => IF PassHolding.scheme_code # NoneVal
           THEN /\ <<new_holdings[eidx], "scheme_code">> \in lookups'
                /\ <<new_holdings[eidx], "search">> \notin lookups'
           ELSE <<new_holdings[eidx], "search">> \in lookups']_vars

\* C22: every holding a parser produces has current_value = quantity *
\* average_price when current_price is 0, and pnl = current_value - quantity *
\* average_price when average_price > 0, pnl = 0 when average_price is 0
\* (here: the holdings of the legacy and the current CSV schema).
C22_ValueAndPnl ==
    parse_out.kind = "csv" =>
        \A r \in CsvResults :
            r.kind = "holdings" =>
                \A i \in DOMAIN r.holdings :
                    LET h == r.holdings[i]
                    IN  /\ h.current_price = 0
                            => h.current_value = h.quantity * h.average_price
                        /\ h.average_price > 0
                            => h.pnl = h.current_value - h.quantity * h.average_price
                        /\ h.average_price = 0 => h.pnl = 0

\* No column is the source of two fields of the mapping.
Injective(mapping) ==
    \A f, g \in DOMAIN mapping :
        (f # g /\ mapping[f] # 0) => mapping[f] # mapping[g]

\* C23: the column mapping is injective.  The mapping the generic column
\* mapper builds for a sheet handled as stocks, and the one the mutual-fund
\* sheet parser builds for a sheet handled as mutual funds, never give the
\* same source column to two different fields.
C23_MappingInjective ==
    parse_out.kind = "excel" =>
        \A i \in DOMAIN GivenSheets : SheetRead(i) =>
            /\ SheetTypeGiven(i) = "stocks"
                   => Injective(AutoDetectColumns(SheetColumns(i)))
            /\ SheetTypeGiven(i) = "mutual_funds"
                   => Injective(MutualFundMapping(SheetColumns(i)))

(***************************************************************************)
(* The statement parsers of the PDF parser.  The text of a PDF is a        *)
(* sequence of lines, a line a sequence of words separated by blanks, a    *)
(* word a sequence of characters.  The words of these texts are names,     *)
(* whole numbers (with or without commas), a lone comma or colon, and      *)
(* identifiers in capitals and digits, so that a pattern matches whole     *)
(* words and the optional fraction of a number pattern matches nothing.    *)
(* The texts are shorter than the 200 and 500 characters the parsers look  *)
(* ahead.                                                                  *)
(***************************************************************************)

\* Bound: a PDF text has at most this many lines.
MaxPdfLines == 3

\* Quantities from this value on are dropped by the table scan and by the
\* generic parser.
QuantityLimit == 1000000

Digits == <<"0", "1", "2", "3", "4", "5", "6", "7", "8", "9">>

IsDigit(c) == \E i \in DOMAIN Digits : Digits[i] = c

IsUpperLetter(c) == \E i \in DOMAIN UpperOf : UpperOf[i] = c

IsLetter(c) == IsUpperLetter(c) \/ \E i \in DOMAIN Lower : Lower[i] = c

\* The word matches [\d,]+ as a whole.
IsNumberWord(w) == w # <<>> /\ \A i \in DOMAIN w : IsDigit(w[i]) \/ w[i] = ","

\* The word is made of letters only: it matches [A-Za-z]+ as a whole.
IsNameWord(w) == w # <<>> /\ \A i \in DOMAIN w : IsLetter(w[i])

\* The value of a sequence of digits.
RECURSIVE DigitsValue(_)
DigitsValue(ds) ==
    IF ds = <<>> THEN 0
    ELSE 10 * DigitsValue(SubSeq(ds, 1, Len(ds) - 1))
         + ((CHOOSE i \in DOMAIN Digits : Digits[i] = ds[Len(ds)]) - 1)

\* float(w.replace(',', '')) of a number word raises ValueError when nothing
\* but commas is left of it.
Converts(w) == Remove(w, ",") # <<>>

NumberValue(w) == DigitsValue(Remove(w, ","))

\* All words of the text in reading order: line breaks are white space.
RECURSIVE WordsOf(_)
WordsOf(lines) ==
    IF lines = <<>> THEN <<>> ELSE Head(lines) \o WordsOf(Tail(lines))

\* The first position from which the rest of the word matches
\* [A-Z]{2,}[A-Z0-9\-]* up to the end of the word; 0 when there is none.
SymbolStart(w) ==
    LET starts == {k \in DOMAIN w :
                      /\ k + 1 <= Len(w)
                      /\ IsUpperLetter(w[k]) /\ IsUpperLetter(w[k + 1])
                      /\ \A j \in (k + 2)..Len(w) :
                            IsUpperLetter(w[j]) \/ IsDigit(w[j]) \/ w[j] = "-"}
    IN  IF starts = {} THEN 0 ELSE Least(starts)

\* A holding of the PDF parsers: no current value and no P&L unless set.
PdfParsed(sym, ex, at, q, avg, cp, cv, isin) ==
    [symbol |-> sym, exchange |-> ex, asset_type |-> at, quantity |-> q,
     average_price |-> avg, current_price |-> cp, current_value |-> cv,
     pnl |-> 0, pnl_percentage |-> 0, isin |-> isin]

\* A variant of the generic filter without the lower limit.
GenericKeeps_NoLowerLimit(quantity) == quantity < QuantityLimit

\* The generic parser keeps a holding with 0 < quantity < 1,000,000.
GenericKeeps(quantity) == quantity > 0 /\ quantity < QuantityLimit

\* The holdings of the matches of SYMBOL QUANTITY PRICE from word i on.
RECURSIVE GenericMatches(_, _)
GenericMatches(ws, i) ==
    IF i + 2 > Len(ws) THEN <<>>
    ELSE IF SymbolStart(ws[i]) # 0 /\ IsNumberWord(ws[i + 1]) /\ IsNumberWord(ws[i + 2])
    THEN (IF /\ Converts(ws[i + 1]) /\ Converts(ws[i + 2])
             /\ GenericKeeps(NumberValue(ws[i + 1]))
          THEN <<PdfParsed(SubSeq(ws[i], SymbolStart(ws[i]), Len(ws[i])), "NSE",
                           "stock", NumberValue(ws[i + 1]), NumberValue(ws[i + 2]),
                           0, 0, NoneVal)>>
          ELSE <<>>)
         \o GenericMatches(ws, i + 3)
    ELSE GenericMatches(ws, i + 1)

CouldNotParse ==
    [symbol |-> "PDF", missing_fields |-> <<"all">>,
     message |-> "Could not parse PDF format. Please check if this is a valid holdings statement."]

\* PDFParser._parse_generic_pdf
ParseGenericPdf(lines) ==
    LET holdings == GenericMatches(WordsOf(lines), 1)
    IN  [kind |-> "holdings", parser |-> "_parse_generic_pdf",
         holdings |-> holdings,
         warnings |-> IF holdings = <<>> THEN <<CouldNotParse>> ELSE <<>>]

\* The words of the text, each with the white space that precedes it.
RECURSIVE SpacedWords(_)
SpacedWords(lines) ==
    IF lines = <<>> THEN <<>>
    ELSE [j \in DOMAIN Head(lines) |->
             [w |-> Head(lines)[j], sep |-> IF j = 1 THEN "\n" ELSE " "]]
         \o SpacedWords(Tail(lines))

\* A character of the class [A-Za-z&\.\-].
IsNameChar(c) == IsLetter(c) \/ c \in {"&", ".", "-"}

\* How many characters of w after its first p ones are name characters in
\* a row.
NameRun(w, p) ==
    LET bad == {k \in (p + 1)..Len(w) : ~IsNameChar(w[k])}
    IN  IF bad = {} THEN Len(w) - p ELSE Least(bad) - p - 1

\* Where (IN[A-Z0-9]{9}) followed by white space matches in w after its first
\* p characters: the identifier is the last 11 characters; 0 when it is not.
IsinStart(w, p) ==
    LET k == Len(w) - 10
    IN  IF /\ k >= 1 /\ k > p
           /\ w[k] = "I" /\ w[k + 1] = "N"
           /\ \A j \in (k + 2)..Len(w) : IsUpperLetter(w[j]) \/ IsDigit(w[j])
        THEN k ELSE 0

\* The greedy match of [A-Za-z\s&\.\-]+ from word j on: its text, and the word
\* and the offset in it where the match ends.
RECURSIVE CompanyName(_, _)
CompanyName(ws, j) ==
    LET w == ws[j].w
        n == NameRun(w, 0)
    IN  IF n < Len(w) THEN [text |-> SubSeq(w, 1, n), i |-> j, p |-> n]
        ELSE IF j = Len(ws) THEN [text |-> w, i |-> j + 1, p |-> 0]
        ELSE LET rest == CompanyName(ws, j + 1)
             IN  [text |-> w \o <<ws[j + 1].sep>> \o rest.text,
                  i |-> rest.i, p |-> rest.p]

\* re.findall(isin_pattern, text): the (isin, company_name) pairs from word i
\* on, the first p characters of word i being consumed already.
RECURSIVE IsinMatches(_, _, _)
IsinMatches(ws, i, p) ==
    IF i > Len(ws) THEN <<>>
    ELSE IF /\ IsinStart(ws[i].w, p) # 0
            /\ i < Len(ws)
            /\ NameRun(ws[i + 1].w, 0) > 0
    THEN LET name == CompanyName(ws, i + 1)
         IN  <<[isin |-> SubSeq(ws[i].w, IsinStart(ws[i].w, p), Len(ws[i].w)),
                company_name |-> name.text]>>
             \o IsinMatches(ws, name.i, name.p)
    ELSE IsinMatches(ws, i + 1, 0)

\* str.strip() of a text with blanks and line breaks.
StripWs(s) ==
    LET keep == {i \in DOMAIN s : s[i] \notin {" ", "\n"}}
    IN  IF keep = {} THEN <<>>
        ELSE SubSeq(s, Least(keep), CHOOSE i \in keep : \A j \in keep : i >= j)

\* s.replace(sub, '')
RECURSIVE RemoveSub(_, _)
RemoveSub(s, sub) ==
    IF Len(s) < Len(sub) THEN s
    ELSE IF SubSeq(s, 1, Len(sub)) = sub
    THEN RemoveSub(SubSeq(s, Len(sub) + 1, Len(s)), sub)
    ELSE <<Head(s)>> \o RemoveSub(Tail(s), sub)

\* The longest run of digits and commas at the end of s.
DigitTail(s) ==
    LET bad == {k \in DOMAIN s : ~(IsDigit(s[k]) \/ s[k] = ",")}
    IN  IF bad = {} THEN s
        ELSE SubSeq(s, (CHOOSE k \in bad : \A j \in bad : k >= j) + 1, Len(s))

\* The word names a unit of the quantity pattern: it begins with share or unit.
IsUnitWord(w) ==
    \/ StartsWith(w, <<"s", "h", "a", "r", "e">>)
    \/ StartsWith(w, <<"u", "n", "i", "t">>)

\* The text the quantity pattern captures near the first occurrence of the
\* identifier in the text; <<>> when the pattern does not match.
QuantityNear(ws, isin) ==
    LET first == Least({i \in DOMAIN ws : Contains(ws[i].w, isin)})
        at    == Least({k \in 1..Len(ws[first].w) :
                           /\ k + Len(isin) - 1 <= Len(ws[first].w)
                           /\ SubSeq(ws[first].w, k, k + Len(isin) - 1) = isin})
        part(j) == IF j = first THEN SubSeq(ws[j].w, at, Len(ws[j].w)) ELSE ws[j].w
        hits  == {j \in first..(Len(ws) - 1) :
                     DigitTail(part(j)) # <<>> /\ IsUnitWord(ws[j + 1].w)}
    IN  IF hits = {} THEN <<>> ELSE DigitTail(part(Least(hits)))

\* The demat parser keeps a holding with quantity > 0.
DematKeeps(quantity) == quantity > 0

\* The holding and the warnings of one (isin, company_name) pair.
DematEntry(ws, m) ==
    LET symbol == RemoveSub(RemoveSub(Upper(StripWs(m.company_name)),
                                      <<" ", "L", "T", "D">>),
                            <<" ", "L", "I", "M", "I", "T", "E", "D">>)
        qty == QuantityNear(ws, m.isin)
        quantity == IF qty # <<>> /\ Converts(qty) THEN NumberValue(qty) ELSE 0
    IN  [holdings |-> IF DematKeeps(quantity)
                      THEN <<PdfParsed(symbol, "NSE", "stock", quantity, 0, 0, 0, m.isin)>>
                      ELSE <<>>,
         warnings |->
             (IF qty # <<>> /\ ~Converts(qty)
              THEN <<[symbol |-> m.company_name, missing_fields |-> <<"quantity">>,
                      message |-> "Could not parse quantity"]>>
              ELSE <<>>)
             \o (IF DematKeeps(quantity)
                 THEN <<[symbol |-> symbol,
                         missing_fields |-> <<"average_price", "current_price">>,
                         message |-> "Prices will be fetched from market data"]>>
                 ELSE <<>>)]

RECURSIVE DematEntries(_, _)
DematEntries(ws, ms) ==
    IF ms = <<>> THEN [holdings |-> <<>>, warnings |-> <<>>]
    ELSE LET e == DematEntry(ws, Head(ms))
             rest == DematEntries(ws, Tail(ms))
         IN  [holdings |-> e.holdings \o rest.holdings,
              warnings |-> e.warnings \o rest.warnings]

\* PDFParser._parse_demat_statement
ParseDematStatement(lines) ==
    LET ws == SpacedWords(lines)
        out == DematEntries(ws, IsinMatches(ws, 1, 0))
    IN  [kind |-> "holdings", parser |-> "_parse_demat_statement",
         holdings |-> out.holdings, warnings |-> out.warnings]

\* One line of the text: its words with one blank between them.
RECURSIVE LineText(_)
LineText(line) ==
    IF line = <<>> THEN <<>>
    ELSE IF Len(line) = 1 THEN Head(line)
    ELSE Head(line) \o <<" ">> \o LineText(Tail(line))

\* The text parse_pdf_file extracts: every line ends with a line break.
RECURSIVE PdfText(_)
PdfText(lines) ==
    IF lines = <<>> THEN <<>>
    ELSE LineText(Head(lines)) \o <<"\n">> \o PdfText(Tail(lines))

Greatest(S) == CHOOSE x \in S : \A y \in S : x >= y

\* The literal kw stands at position k of the text.
LiteralAt(text, k, kw) ==
    k + Len(kw) - 1 <= Len(text) /\ SubSeq(text, k, k + Len(kw) - 1) = kw

\* A character of the class [A-Za-z\s].
IsSchemeChar(c) == IsLetter(c) \/ c \in {" ", "\n"}

\* (?:Fund|Scheme) under re.IGNORECASE at position k: the length of the word
\* matched, 0 when neither matches.
FundWordAt(text, k) ==
    IF LiteralAt(LowerStr(text), k, <<"f", "u", "n", "d">>) THEN 4
    ELSE IF LiteralAt(LowerStr(text), k, <<"s", "c", "h", "e", "m", "e">>) THEN 6
    ELSE 0

\* re.findall(scheme_pattern, text, re.IGNORECASE) from position s on: the
\* greedy run of letters and white space gives back characters up to the last
\* Fund or Scheme in it, and [^\n]* takes the rest of that line.
RECURSIVE SchemeMatches(_, _)
SchemeMatches(text, s) ==
    IF s > Len(text) THEN <<>>
    ELSE IF ~IsSchemeChar(text[s]) THEN SchemeMatches(text, s + 1)
    ELSE LET bad == {k \in s..Len(text) : ~IsSchemeChar(text[k])}
             e   == IF bad = {} THEN Len(text) ELSE Least(bad) - 1
             occ == {k \in (s + 1)..e : FundWordAt(text, k) # 0}
         IN  IF occ = {} THEN SchemeMatches(text, e + 1)
             ELSE LET k == Greatest(occ)
                      breaks == {j \in (k + FundWordAt(text, k))..Len(text) :
                                    text[j] = "\n"}
                      last == IF breaks = {} THEN Len(text) ELSE Least(breaks) - 1
                  IN  <<SubSeq(text, s, last)>> \o SchemeMatches(text, last + 1)

\* text.find(sub) of a text that holds sub, counted from 1.
Find(text, sub) == Least({k \in DOMAIN text : LiteralAt(text, k, sub)})

\* The first position from j on that holds no white space.
SkipSpace(text, j) ==
    LET ink == {k \in j..Len(text) : text[k] \notin {" ", "\n"}}
    IN  IF ink = {} THEN Len(text) + 1 ELSE Least(ink)

\* The longest run of digits and commas at position j.
NumberAt(text, j) ==
    LET bad == {k \in j..Len(text) : ~(IsDigit(text[k]) \/ text[k] = ",")}
    IN  SubSeq(text, j, IF bad = {} THEN Len(text) ELSE Least(bad) - 1)

\* What \s*:?\s*([\d,]+) captures at position j; <<>> when it does not match.
ValueAfter(text, j) ==
    LET a == SkipSpace(text, j)
        b == IF a <= Len(text) /\ text[a] = ":" THEN SkipSpace(text, a + 1) ELSE a
    IN  NumberAt(text, b)

\* re.search of a label followed by its value: what the first match
\* captures, <<>> when there is no match.
LabelledValue(text, labels) ==
    LET hits == {k \in DOMAIN text :
                    \E kw \in labels :
                        /\ LiteralAt(text, k, kw)
                        /\ ValueAfter(text, k + Len(kw)) # <<>>}
        k == Least(hits)
        kw == CHOOSE l \in labels : LiteralAt(text, k, l)
    IN  IF hits = {} THEN <<>> ELSE ValueAfter(text, k + Len(kw))

UnitsLabels ==
    {<<"B", "a", "l", "a", "n", "c", "e">>, <<"U", "n", "i", "t", "s">>,
     <<"C", "l", "o", "s", "i", "n", "g">>}

NavLabels == {<<"N", "A", "V">>}

\* How many characters of a scheme or a fund line make the symbol.
SymbolLimit == 50

\* s.strip()[:50]
SymbolOf(s) ==
    SubSeq(StripWs(s), 1,
           IF Len(StripWs(s)) < SymbolLimit THEN Len(StripWs(s)) ELSE SymbolLimit)

\* The statement parser keeps a scheme with quantity > 0.
SchemeKeeps(quantity) == quantity > 0

\* The holding and the warnings of one scheme of the statement.
SchemeEntry(text, scheme) ==
    LET nearby_text == SubSeq(text, Find(text, scheme), Len(text))
        units == LabelledValue(nearby_text, UnitsLabels)
        nav   == LabelledValue(nearby_text, NavLabels)
        quantity == IF units # <<>> /\ Converts(units) THEN NumberValue(units) ELSE 0
        price == IF nav # <<>> /\ Converts(nav) THEN NumberValue(nav) ELSE 0
    IN  [holdings |->
             IF SchemeKeeps(quantity)
             THEN <<PdfParsed(SymbolOf(scheme), "MF", "mutual_fund", quantity, price,
                              price, IF price > 0 THEN quantity * price ELSE 0,
                              NoneVal)>>
             ELSE <<>>,
         warnings |->
             (IF units # <<>> /\ ~Converts(units)
              THEN <<[symbol |-> scheme, missing_fields |-> <<"quantity">>,
                      message |-> "Could not parse units value"]>>
              ELSE <<>>)
             \o (IF nav # <<>> /\ ~Converts(nav)
                 THEN <<[symbol |-> scheme, missing_fields |-> <<"nav">>,
                         message |-> "Could not parse NAV value"]>>
                 ELSE <<>>)]

RECURSIVE SchemeEntries(_, _)
SchemeEntries(text, schemes) ==
    IF schemes = <<>> THEN [holdings |-> <<>>, warnings |-> <<>>]
    ELSE LET e == SchemeEntry(text, Head(schemes))
             rest == SchemeEntries(text, Tail(schemes))
         IN  [holdings |-> e.holdings \o rest.holdings,
              warnings |-> e.warnings \o rest.warnings]

\* The words that mark a fund line of a table, in lower case.
TableMarks ==
    {<<"f", "u", "n", "d">>, <<"e", "l", "s", "s">>,
     <<"l", "i", "q", "u", "i", "d">>, <<"d", "e", "b", "t">>,
     <<"e", "q", "u", "i", "t", "y">>, <<"g", "r", "o", "w", "t", "h">>,
     <<"d", "i", "v", "i", "d", "e", "n", "d">>}

\* How many lines the table scan joins from a fund line on.
TableSpan == 5

\* re.findall(r'[\d,]+', text) from position j on.
RECURSIVE NumbersIn(_, _)
NumbersIn(text, j) ==
    IF j > Len(text) THEN <<>>
    ELSE IF NumberAt(text, j) = <<>> THEN NumbersIn(text, j + 1)
    ELSE <<NumberAt(text, j)>> \o NumbersIn(text, j + Len(NumberAt(text, j)))

\* The table scan keeps a fund line with 0 < units < 1000000.
TableKeeps(units) == units > 0 /\ units < QuantityLimit

\* The holdings of the lines from line i on.
RECURSIVE TableEntries(_, _)
TableEntries(lines, i) ==
    IF i > Len(lines) THEN <<>>
    ELSE LET line == LineText(lines[i])
             last == IF i + TableSpan - 1 < Len(lines) THEN i + TableSpan - 1
                     ELSE Len(lines)
             combined_text == PdfText(SubSeq(lines, i, last))
             numbers == NumbersIn(combined_text, 1)
             units == NumberValue(numbers[1])
             nav == NumberValue(numbers[2])
         IN  (IF /\ \E m \in TableMarks : Contains(LowerStr(line), m)
                 /\ Len(numbers) >= 2
                 /\ Converts(numbers[1]) /\ Converts(numbers[2])
                 /\ TableKeeps(units)
              THEN <<PdfParsed(SymbolOf(line), "MF", "mutual_fund", units, nav, nav,
                               units * nav, NoneVal)>>
              ELSE <<>>)
             \o TableEntries(lines, i + 1)

\* PDFParser._extract_mf_table_data
ExtractMfTableData(lines) ==
    [kind |-> "holdings", parser |-> "_extract_mf_table_data",
     holdings |-> TableEntries(lines, 1), warnings |-> <<>>]

\* PDFParser._parse_mutual_fund_statement
ParseMutualFundStatement(lines) ==
    LET out == SchemeEntries(PdfText(lines), SchemeMatches(PdfText(lines), 1))
    IN  IF out.holdings = <<>> THEN ExtractMfTableData(lines)
        ELSE [kind |-> "holdings", parser |-> "_parse_mutual_fund_statement",
              holdings |-> out.holdings, warnings |-> out.warnings]

\* The lines a PDF may hold, in the order they stand in it:
\*    1  Axis Bluechip Fund
\*    2  Folio 7 Units : 5 NAV : 2
\*    3  Folio 8 Units : 0 NAV : 2
\*    4  Folio 9 Units : , NAV : 3
\*    5  Folio Units NAV
\*    6  Growth 5 2
\*    7  Growth 2000000 2
\*    8  Growth 0 3
\*    9  CDSL Demat ISIN Statement
\*   10  INE002A0101 Reliance Industries Ltd 10 shares
\*   11  INE009A0102 Infosys Limited 0 shares
\*   12  RELIANCE 10 2500
\*   13  TCS 0 10
\*   14  INFY 2000000 5
\*   15  SBIN , 5
PdfLines ==
    <<<<<<"A", "x", "i", "s">>, <<"B", "l", "u", "e", "c", "h", "i", "p">>, <<"F", "u", "n", "d">>>>,
      <<<<"F", "o", "l", "i", "o">>, <<"7">>, <<"U", "n", "i", "t", "s">>, <<":">>, <<"5">>, <<"N", "A", "V">>, <<":">>, <<"2">>>>,
      <<<<"F", "o", "l", "i", "o">>, <<"8">>, <<"U", "n", "i", "t", "s">>, <<":">>, <<"0">>, <<"N", "A", "V">>, <<":">>, <<"2">>>>,
      <<<<"F", "o", "l", "i", "o">>, <<"9">>, <<"U", "n", "i", "t", "s">>, <<":">>, <<",">>, <<"N", "A", "V">>, <<":">>, <<"3">>>>,
      <<<<"F", "o", "l", "i", "o">>, <<"U", "n", "i", "t", "s">>, <<"N", "A", "V">>>>,
      <<<<"G", "r", "o", "w", "t", "h">>, <<"5">>, <<"2">>>>,
      <<<<"G", "r", "o", "w", "t", "h">>, <<"2", "0", "0", "0", "0", "0", "0">>, <<"2">>>>,
      <<<<"G", "r", "o", "w", "t", "h">>, <<"0">>, <<"3">>>>,
      <<<<"C", "D", "S", "L">>, <<"D", "e", "m", "a", "t">>, <<"I", "S", "I", "N">>, <<"S", "t", "a", "t", "e", "m", "e", "n", "t">>>>,
      <<<<"I", "N", "E", "0", "0", "2", "A", "0", "1", "0", "1">>, <<"R", "e", "l", "i", "a", "n", "c", "e">>, <<"I", "n", "d", "u", "s", "t", "r", "i", "e", "s">>, <<"L", "t", "d">>, <<"1", "0">>, <<"s", "h", "a", "r", "e", "s">>>>,
      <<<<"I", "N", "E", "0", "0", "9", "A", "0", "1", "0", "2">>, <<"I", "n", "f", "o", "s", "y", "s">>, <<"L", "i", "m", "i", "t", "e", "d">>, <<"0">>, <<"s", "h", "a", "r", "e", "s">>>>,
      <<<<"R", "E", "L", "I", "A", "N", "C", "E">>, <<"1", "0">>, <<"2", "5", "0", "0">>>>,
      <<<<"T", "C", "S">>, <<"0">>, <<"1", "0">>>>,
      <<<<"I", "N", "F", "Y">>, <<"2", "0", "0", "0", "0", "0", "0">>, <<"5">>>>,
      <<<<"S", "B", "I", "N">>, <<",">>, <<"5">>>>>>

RECURSIVE PdfLinesFrom(_, _)
PdfLinesFrom(S, i) ==
    IF i > Len(PdfLines) THEN <<>>
    ELSE (IF i \in S THEN <<PdfLines[i]>> ELSE <<>>) \o PdfLinesFrom(S, i + 1)

PdfDocs(n) ==
    {[kind |-> "pdf_lines", lines |-> PdfLinesFrom(S, 1)] :
        S \in {T \in SUBSET DOMAIN PdfLines : Cardinality(T) <= n}}

\* PDFParser.parse_pdf_file after the text is extracted
ParsePdfText(lines) ==
    LET parser == StatementParser(PdfText(lines))
    IN  IF parser = "_parse_mutual_fund_statement" THEN ParseMutualFundStatement(lines)
        ELSE IF parser = "_parse_demat_statement" THEN ParseDematStatement(lines)
        ELSE ParseGenericPdf(lines)

ParsePdfFile ==
    /\ parse_in.kind = "pdf_lines"
    /\ parse_out = NotParsed
    /\ parse_out' = ParsePdfText(parse_in.lines)
    /\ UNCHANGED <<parse_in, calls, ivars>>

InitPdfParse ==
    /\ parse_in \in PdfDocs(MaxPdfLines)
    /\ parse_out = NotParsed
    /\ calls = NoCalls
    /\ committed = <<>>
    /\ autoflush = TRUE
    /\ IdleCall

NextPdfParse == ParsePdfFile

SpecPdfParse == InitPdfParse /\ [][NextPdfParse]_vars

\* C24: every holding the PDF parser emits has quantity > 0; a holding of the
\* table scan or of the generic parser also has quantity < 1000000; and a
\* generic parse without a holding gives exactly one warning, the one saying
\* that the document could not be parsed.
C24_PdfQuantities ==
    parse_out.kind = "holdings" =>
        /\ \A i \in DOMAIN parse_out.holdings : parse_out.holdings[i].quantity > 0
        /\ parse_out.parser \in {"_extract_mf_table_data", "_parse_generic_pdf"}
              => \A i \in DOMAIN parse_out.holdings :
                     parse_out.holdings[i].quantity < QuantityLimit
        /\ (parse_out.parser = "_parse_generic_pdf" /\ parse_out.holdings = <<>>)
              => parse_out.warnings = <<CouldNotParse>>

\* The generic parser met a quantity of 0, one of 2000000 and one of 10, and
\* kept the last only.
C24_Witness ==
    /\ parse_out.kind = "holdings"
    /\ parse_out.parser = "_parse_generic_pdf"
    /\ parse_in.lines = <<PdfLines[12], PdfLines[13], PdfLines[14]>>
    /\ Len(parse_out.holdings) = 1
    /\ parse_out.holdings[1].quantity = 10

\* ---------------------------------------------------------------------------
\* The PDF upload handler from the file name to the response: the file-name
\* validation, the extension test, the parse, and the summary it returns.
\* What it stores between the parse and the return is the upload model above;
\* no step of that part assigns the warnings.
\* ---------------------------------------------------------------------------

\* The first match of ([A-Z0-9]{6})(?:[-_]|\.) in filename.upper(); the optional
\* group (?:holdings[-_])? is written in lower case and never matches an
\* upper-cased name.  <<>> when there is no match.
FileAccountId(filename) ==
    LET name == Upper(filename)
        hits == {k \in 1..(Len(name) - 6) :
                    /\ \A j \in k..(k + 5) : IsUpperLetter(name[j]) \/ IsDigit(name[j])
                    /\ name[k + 6] \in {"-", "_", "."}}
    IN  IF hits = {} THEN <<>> ELSE SubSeq(name, Least(hits), Least(hits) + 5)

\* validate_file_account_match
ValidateFileAccountMatch(filename, client_id) ==
    IF FileAccountId(filename) # <<>> /\ FileAccountId(filename) # Upper(client_id)
    THEN [is_valid |-> FALSE,
          error_msg |-> [text |-> "File appears to be for account, but you selected account",
                         file_account_id |-> FileAccountId(filename),
                         client_id |-> client_id]]
    ELSE [is_valid |-> TRUE, error_msg |-> NoneVal]

\* The file names and the client ids of the selected account.
PdfFileNames ==
    {<<"c", "a", "s", ".", "p", "d", "f">>,
     <<"A", "B", "1", "2", "3", "4", "_", "c", "a", "s", ".", "p", "d", "f">>,
     <<"Y", "G", "7", "2", "2", "7", ".", "p", "d", "f">>,
     <<"h", "o", "l", "d", "i", "n", "g", "s", "-", "Y", "G", "7", "2", "2", "7", ".", "p", "d", "f">>,
     <<"s", "t", "a", "t", "e", "m", "e", "n", "t", ".", "p", "d", "f">>,
     <<"A", "B", "1", "2", "3", "4", "_", "c", "a", "s", ".", "t", "x", "t">>}

ClientIds == {<<"Y", "G", "7", "2", "2", "7">>, <<"A", "B", "1", "2", "3", "4">>}

\* How many lines the PDF of an upload holds.
MaxUploadLines == 1

PdfUploads(n) ==
    {[kind |-> "pdf_upload", filename |-> f, client_id |-> c, lines |-> doc.lines] :
        f \in PdfFileNames, c \in ClientIds, doc \in PdfDocs(n)}

\* The account test: a mismatch becomes a warning.
ValidateFileName ==
    /\ parse_in.kind = "pdf_upload"
    /\ parse_out = NotParsed
    /\ LET v == ValidateFileAccountMatch(parse_in.filename, parse_in.client_id)
       IN  parse_out' = [kind |-> "validated",
                         warnings |-> IF ~v.is_valid THEN <<[message |-> v.error_msg]>>
                                      ELSE <<>>]
    /\ UNCHANGED <<parse_in, calls, ivars>>

DotPdf == <<".", "p", "d", "f">>

\* The extension test
RejectExtension ==
    /\ parse_out.kind = "validated"
    /\ ~EndsWith(LowerStr(parse_in.filename), DotPdf)
    /\ parse_out' = [kind |-> "http_error", status_code |-> 400,
                     detail |-> "Please upload a PDF file (.pdf)"]
    /\ UNCHANGED <<parse_in, calls, ivars>>

\* holdings_data, warnings = await PDFParser.parse_pdf_file(file)
ParsePdfUpload ==
    /\ parse_out.kind = "validated"
    /\ EndsWith(LowerStr(parse_in.filename), DotPdf)
    /\ parse_out' = [kind |-> "parsed",
                     holdings_data |-> ParsePdfText(parse_in.lines).holdings,
                     warnings |-> ParsePdfText(parse_in.lines).warnings]
    /\ UNCHANGED <<parse_in, calls, ivars>>

\* The summary of a call that got through the store and the price pass.
ReturnPdfSummary ==
    /\ parse_out.kind = "parsed"
    /\ parse_out' = [kind |-> "response", warnings |-> parse_out.warnings]
    /\ UNCHANGED <<parse_in, calls, ivars>>

\* The handler's except branch
PdfUploadFails ==
    /\ parse_out.kind = "parsed"
    /\ parse_out' = [kind |-> "http_error", status_code |-> 400,
                     detail |-> "Failed to process the uploaded file. Please check the file format and try again."]
    /\ UNCHANGED <<parse_in, calls, ivars>>

InitPdfUpload ==
    /\ parse_in \in PdfUploads(MaxUploadLines)
    /\ parse_out = NotParsed
    /\ calls = NoCalls
    /\ committed = <<>>
    /\ autoflush = TRUE
    /\ IdleCall

NextPdfUpload ==
    \/ ValidateFileName
    \/ RejectExtension
    \/ ParsePdfUpload
    \/ ReturnPdfSummary
    \/ PdfUploadFails

SpecPdfUpload == InitPdfUpload /\ [][NextPdfUpload]_vars

\* The warning the handler makes of a mismatch of the given upload.
MismatchWarning ==
    [message |-> ValidateFileAccountMatch(parse_in.filename, parse_in.client_id).error_msg]

\* C25: a PDF upload whose file name holds an account id other than the
\* client_id of the selected account is not rejected for it, and the summary
\* returned holds the mismatch message among its warnings, together with the
\* warnings of the parser.
C25_MismatchWarning ==
    (/\ parse_in.kind = "pdf_upload"
     /\ ~ValidateFileAccountMatch(parse_in.filename, parse_in.client_id).is_valid)
    => /\ parse_out.kind = "http_error"
            => parse_out.detail # "File appears to be for account, but you selected account"
       /\ parse_out.kind = "response"
            => /\ \E i \in DOMAIN parse_out.warnings : parse_out.warnings[i] = MismatchWarning
               /\ \A i \in DOMAIN ParsePdfText(parse_in.lines).warnings :
                     \E j \in DOMAIN parse_out.warnings :
                        parse_out.warnings[j] = ParsePdfText(parse_in.lines).warnings[i]

\* ---------------------------------------------------------------------------
\* The price pass as a whole: what its commit writes for the holdings it
\* selected.  During the pass `committed` is the table as the pass found it.
\* ---------------------------------------------------------------------------

\* The four price fields of holding g are those of holding h.
SamePriceFields(h, g) ==
    /\ g.current_price = h.current_price
    /\ g.current_value = h.current_value
    /\ g.pnl = h.pnl
    /\ g.pnl_percentage = h.pnl_percentage

\* The four price fields of g are computed from h and a price looked up; the
\* percentage has a value only when quantity * average_price is not 0.
RecomputedFrom(h, g) ==
    \E price \in LookupPrices :
        LET invested == h.quantity * h.average_price
            value == h.quantity * price
        IN  /\ invested # 0
            /\ g.current_price = price
            /\ g.current_value = value
            /\ g.pnl = value - invested
            /\ g.pnl_percentage = ((value - invested) * 100) \div invested

\* C26: the price pass is all-or-nothing for each holding it selected: when
\* the pass commits, the holding's current_price, current_value, pnl and
\* pnl_percentage are either all recomputed from the price looked up or all
\* as the pass found them, also when quantity * average_price is 0.
C26_EnrichmentAllOrNothing ==
    [][(phase = "PRICE_ENRICHING" /\ phase' = "SUCCESS")
        => \A k \in DOMAIN new_holdings :
              LET id == new_holdings[k]
              IN  \/ SamePriceFields(committed[id], committed'[id])
                  \/ RecomputedFrom(committed[id], committed'[id])]_vars

\* C27: in the summary a handler returns, every parsed holding is counted in
\* exactly one of imported_count, updated_count and skipped_count, so the three
\* add up to the number of parsed holdings, and imported_count is the number
\* of holdings the call inserted.
C27_CounterPartition ==
    phase = "SUCCESS" =>
        /\ imported_count + updated_count + skipped_count = Len(holdings_data)
        /\ imported_count = Len(committed) - Len(pre_store)

\* ---------------------------------------------------------------------------
\* The reconciliation key in the holdings table.
\* ---------------------------------------------------------------------------

\* The holdings repository of the specification: its reads are scoped to the
\* transaction of the persistence phase, so a find sees the rows the same call
\* has inserted.  For the session of get_db this is autoflush.
ReadsOwnWrites == autoflush

\* At most one holding per (platform_account_id, symbol, asset_type).
UniqueKeys(store) ==
    \A i, j \in DOMAIN store :
        (/\ store[i].platform_account_id = store[j].platform_account_id
         /\ store[i].symbol = store[j].symbol
         /\ store[i].asset_type = store[j].asset_type) => i = j

C29_FailedLeavesNoWrites ==
    (phase = "FAILED" /\ import_status = "failed") => committed = pre_store

\* ---------------------------------------------------------------------------
\* The import record of a call.  The handler is sequential code: once the
\* record exists the call goes on to its next statement until it returns or
\* raises, which is weak fairness of the steps of a call in progress.
\* ---------------------------------------------------------------------------

\* The steps of a call whose import record exists.
Proceed ==
    \/ InsertHolding
    \/ UpdateExisting
    \/ SkipUnchanged
    \/ \E msg \in ExcMsgs : PersistException(msg)
    \/ CommitBatch
    \/ EnrichNoLookup
    \/ \E out \in {"none", "raise"} : EnrichLookupFailed(out)
    \/ \E price \in LookupPrices : EnrichLookupOk(price)
    \/ \E msg \in DbExcMsgs : EnrichException(msg)
    \/ FinishImport

\* Every step of a call in progress moves the call's position.
position == <<phase, idx, eidx>>

\* The calls start on an empty table: the rows the second call updates or
\* skips are those the first call has inserted.
InitLive == Init /\ committed = <<>>

SpecLive == InitLive /\ [][Next]_vars /\ WF_position(Proceed)

====
